---------------------------- MODULE Spec2Model ----------------------------
(* A model of the tool-calling core of dekomposit: the two tool loops        *)
(* (ToolLoopRunner.run and Agent.execute_tools), the ToolExecutor, the       *)
(* ToolRegistry lookups they rely on, and UserMemory.                        *)
EXTENDS Integers, Sequences, FiniteSets, TLC

VARIABLES
    variant,            \* which loop runs: "runner" (ToolLoopRunner.run) or "agent" (Agent.execute_tools)
    max_iterations,     \* the max_iterations argument of the run
    pc,                 \* position of the loop: "loop", "exec", "in_tool", "returned"
    iteration,          \* the for-loop variable of the run
    messages,           \* the running message list
    tool_call_history,  \* the list of ToolCallRecord
    tool_calls,         \* message.tool_calls of the response being processed
    tc_index,           \* position of the inner for loop in tool_calls (1-based)
    pending,            \* the call being awaited while pc = "in_tool"
    result,             \* the value returned by the run (None until it returns)
    registry,           \* the ToolRegistry: _tools and _tool_factories
    model_calls,        \* history: number of Client.request_with_tools calls made
    responses,          \* history: the responses the Client returned, in order
    started,            \* history: number of tool invocations started
    finished,           \* history: number of tool invocations that returned or raised
    conversation_history, \* UserMemory.conversation_history
    topics,             \* UserMemory.topics
    added,              \* history: every message passed to add_message, in order
    topic_calls,        \* history: number of add_topic calls made
    last_op,            \* history: the last UserMemory operation and what it saw
    mistake_count,      \* UserMemory.mistake_count
    learning_gaps,      \* UserMemory.learning_gaps
    mistake_calls,      \* history: the mistake types passed to add_mistake, in order
    styles,             \* UserMemory.teaching_style, speaking_style and tone_vibe
    auto_discover,      \* the auto_discover argument the registry was built with
    reg_pc,             \* ToolRegistry(): "discovering", "ready" (constructed) or "raised"
    disc_queue,         \* _auto_discover: the modules iter_modules has yet to yield
    lookup,             \* history: the last registry call and what it returned
    base_prompt,        \* Agent.base_prompt, the system prompt of the next run
    turn_count,         \* history: number of Agent.chat and stream_chat calls made
    last_turn,          \* history: the last Agent.chat call: its text, the history
                        \* before it, how it ended and what it gave back, and
                        \* (known) the learning gaps, topics and styles the
                        \* memory held when it began
    presets,            \* FormatRegistry._presets
    active,             \* FormatRegistry._active
    fmt_call,           \* history: the last FormatRegistry call and how it ended
    route,              \* Agent.stream_chat: its position, the decision of the routing
                        \* step, the branches entered and what was yielded
    service,            \* AgentService.ask: its position ("in_agent", "in_tool",
                        \* "returned"), what it called and what it gave back
    tui,                \* the TUI: the last parse_input call and what it returned
    agents,             \* two Agent instances in one process: the objects they
                        \* hold, by reference, and who acted last
    app                 \* DekompositTuiApp: its fields, its worker and what it
                        \* has written and sent

loopVars == <<variant, max_iterations, pc, iteration, messages, tool_call_history,
              tool_calls, tc_index, pending, result, registry, model_calls,
              responses, started, finished>>
memVars == <<conversation_history, topics, added, topic_calls, last_op,
             mistake_count, learning_gaps, mistake_calls, styles>>
regVars == <<auto_discover, reg_pc, disc_queue, lookup>>
turnVars == <<base_prompt, turn_count, last_turn>>
fmtVars == <<presets, active, fmt_call>>
appVars == <<route, service, tui, agents, app>>
auxVars == <<regVars, turnVars, fmtVars, appVars>>
\* the variables of the loop other than the registry
loopButRegistry == <<variant, max_iterations, pc, iteration, messages, tool_call_history,
                     tool_calls, tc_index, pending, result, model_calls, responses,
                     started, finished>>
\* what a conversation leaves alone
sideVars == <<regVars, fmtVars, appVars>>
\* what the calls of a ToolRegistry leave alone
notRegVars == <<loopButRegistry, memVars, turnVars, fmtVars, appVars>>
\* what the calls of a FormatRegistry leave alone
notFmtVars == <<loopVars, memVars, regVars, turnVars, appVars>>
vars == <<loopVars, memVars, auxVars>>

----------------------------------------------------------------------------
(* Bounds of the model.                                                      *)

\* largest max_iterations argument tried
MaxIterations == 2
\* largest number of tool calls the model requests over one run
MaxCalls == 2
\* messages added beyond the history cap
ExtraMessages == 60
\* largest number of add_topic calls in one run
MaxTopicCalls == 2
\* largest number of add_mistake calls in one run
MaxMistakeCalls == 11

----------------------------------------------------------------------------
(* Python values. Every value is a record of one shape, so that values of    *)
(* different Python types can be compared: py is the type, s the text of a   *)
(* scalar, items the entries of a dict (key k, value val) or of a list.      *)

None == << >>
Some(x) == <<x>>
IsNone(o) == o = << >>

PyStr(s) == [py |-> "str", s |-> s, items |-> << >>]
PyInt(n) == [py |-> "int", s |-> ToString(n), items |-> << >>]
PyTrue == [py |-> "bool", s |-> "true", items |-> << >>]
PyDict(items) == [py |-> "dict", s |-> "", items |-> items]
PyList(elems) == [py |-> "list", s |-> "", items |-> elems]
Item(k, val) == [k |-> k, val |-> val]

isinstance_dict(v) == v.py = "dict"
Keys(d) == {d.items[i].k : i \in 1..Len(d.items)}

\* bool(content) of an optional string: None and "" are falsy
Truthy(o) == o # None /\ o[1] # ""

RECURSIVE JoinItems(_, _)
JoinItems(strs, sep) ==
    IF strs = << >> THEN ""
    ELSE IF Len(strs) = 1 THEN strs[1]
    ELSE strs[1] \o sep \o JoinItems(Tail(strs), sep)

\* json.dumps over the values above (all strings of the model are ASCII and
\* hold no character that needs escaping, so ensure_ascii changes nothing)
RECURSIVE JsonDumps(_)
JsonDumps(v) ==
    CASE v.py = "str" -> "\"" \o v.s \o "\""
      [] v.py = "dict" ->
            "{" \o JoinItems([i \in 1..Len(v.items) |->
                       "\"" \o v.items[i].k \o "\": " \o JsonDumps(v.items[i].val)], ", ")
                \o "}"
      [] v.py = "list" ->
            "[" \o JoinItems([i \in 1..Len(v.items) |-> JsonDumps(v.items[i].val)], ", ")
                \o "]"
      [] OTHER -> v.s

\* The argument strings the model client sends, and json.loads on each:
\* ok = FALSE stands for json.JSONDecodeError.
ArgsPing == "{\"text\": \"ping\"}"
ArgsList == "[1]"
ArgsBroken == "{\"text\": "
ArgsTranslate == "{\"text\": \"hi\", \"source_lang\": \"en\", \"target_lang\": \"ru\"}"
ArgsX == "{\"x\": 1}"
ArgsAddTopic == "{\"action\": \"add\", \"topic\": \"art\"}"
ArgsAddGap == "{\"action\": \"add\", \"learning_gap\": \"article\"}"
ArgsSetTone == "{\"action\": \"set\", \"tone_vibe\": \"serious\"}"
ArgsGet == "{\"action\": \"get\"}"
ArgsRemoveTopic ==
    "{\"action\": \"remove\", \"remove_type\": \"topic\", \"remove_item\": \"art\"}"

JsonLoads(arguments) ==
    CASE arguments = ArgsPing ->
            [ok |-> TRUE, value |-> PyDict(<<Item("text", PyStr("ping"))>>)]
      [] arguments = ArgsList ->
            [ok |-> TRUE, value |-> PyList(<<Item("", PyInt(1))>>)]
      [] arguments = ArgsTranslate ->
            [ok |-> TRUE, value |-> PyDict(<<Item("text", PyStr("hi")),
                                             Item("source_lang", PyStr("en")),
                                             Item("target_lang", PyStr("ru"))>>)]
      [] arguments = ArgsX ->
            [ok |-> TRUE, value |-> PyDict(<<Item("x", PyInt(1))>>)]
      [] arguments = ArgsAddTopic ->
            [ok |-> TRUE, value |-> PyDict(<<Item("action", PyStr("add")),
                                             Item("topic", PyStr("art"))>>)]
      [] arguments = ArgsAddGap ->
            [ok |-> TRUE, value |-> PyDict(<<Item("action", PyStr("add")),
                                             Item("learning_gap", PyStr("article"))>>)]
      [] arguments = ArgsSetTone ->
            [ok |-> TRUE, value |-> PyDict(<<Item("action", PyStr("set")),
                                             Item("tone_vibe", PyStr("serious"))>>)]
      [] arguments = ArgsGet ->
            [ok |-> TRUE, value |-> PyDict(<<Item("action", PyStr("get"))>>)]
      [] arguments = ArgsRemoveTopic ->
            [ok |-> TRUE, value |-> PyDict(<<Item("action", PyStr("remove")),
                                             Item("remove_type", PyStr("topic")),
                                             Item("remove_item", PyStr("art"))>>)]
      [] OTHER -> [ok |-> FALSE, value |-> PyDict(<< >>)]


----------------------------------------------------------------------------
(* Tools. A tool instance is a record of its class, its declared name and    *)
(* the Agent it refers to (MemoryTool._agent), None when it refers to none.  *)

ToolName(cls) ==
    CASE cls = "EchoTool" -> "echo_tool"
      [] cls = "DummyTool" -> "dummy_tool"
      [] cls = "AdaptiveTranslationTool" -> "adaptive_translation"
      [] cls = "LanguageDetectionTool" -> "detect_language"
      [] cls = "MemoryTool" -> "memory"
      [] cls = "ReversoAPI" -> "reverso_api"
      [] cls = "PlainTool" -> "plain_tool"

\* factory(): the class called with no arguments
NewTool(cls) == [cls |-> cls, name |-> ToolName(cls), agent |-> None]

DictGet(d, key) == d.items[CHOOSE i \in 1..Len(d.items) : d.items[i].k = key].val

Returned(v) == [raised |-> FALSE, value |-> v, exc |-> ""]
Raised(text) == [raised |-> TRUE, value |-> PyDict(<< >>), exc |-> text]

\* EchoTool.__call__(self, text): binds exactly the keyword text
EchoTool_call(kwargs) ==
    IF "text" \notin Keys(kwargs)
    THEN Raised("EchoTool.__call__() missing 1 required positional argument: 'text'")
    ELSE IF Keys(kwargs) # {"text"}
    THEN Raised("EchoTool.__call__() got an unexpected keyword argument")
    ELSE Returned(PyDict(<<Item("echo", DictGet(kwargs, "text"))>>))

\* DummyTool.__call__(self, **kwargs): {"ok": True, **kwargs}
DummyTool_call(kwargs) ==
    Returned(PyDict(<<Item("ok", PyTrue)>>
                    \o SelectSeq(kwargs.items, LAMBDA it : it.k # "ok")))

\* AdaptiveTranslationTool.__call__ in a process with no Google Cloud project
\* configured: validate_input fails on the missing project id
AdaptiveTranslationTool_call(kwargs) ==
    IF "text" \notin Keys(kwargs)
    THEN Raised("AdaptiveTranslationTool.__call__() missing 1 required positional argument: 'text'")
    ELSE Raised("Invalid input for AdaptiveTranslationTool")

\* a tool of the caller's that answers with a string: BaseTool.__call__ is
\* declared to return Any
PlainTool_call(kwargs) == Returned(PyStr("done"))

\* tool(**kwargs) for a mapping kwargs
CallTool(tool, kwargs) ==
    CASE tool.cls = "EchoTool" -> EchoTool_call(kwargs)
      [] tool.cls = "PlainTool" -> PlainTool_call(kwargs)
      [] tool.cls = "DummyTool" -> DummyTool_call(kwargs)
      [] tool.cls = "AdaptiveTranslationTool" -> AdaptiveTranslationTool_call(kwargs)

----------------------------------------------------------------------------
(* ToolRegistry: _tools maps a key to a tool instance, _tool_factories is    *)
(* the insertion-ordered dict of factories, kept as a sequence of entries.   *)

\* every key or name a registry of the model can hold, in sorted() order
KeyOrder == <<"adaptive_translation", "adaptivetranslationtool", "detect_language",
              "dummy_tool", "dummyfactory", "dummytool", "echo_tool", "echotool",
              "languagedetectiontool", "memory", "memorytool", "plain_tool", "reverso_api",
              "reversoapi">>

FactoryKeys(reg) == {reg.factories[i].key : i \in 1..Len(reg.factories)}
FactoryOf(reg, key) ==
    reg.factories[CHOOSE i \in 1..Len(reg.factories) : reg.factories[i].key = key]

\* ToolRegistry.register
register(reg, tool) ==
    [reg EXCEPT !.tools = [k \in DOMAIN reg.tools \cup {tool.name} |->
                              IF k = tool.name THEN tool ELSE reg.tools[k]]]

\* a get that matches keys only and never tries the declared names
RegistryGetByKeyOnly(reg, name) ==
    IF name \in DOMAIN reg.tools
    THEN [tool |-> Some(reg.tools[name]), reg |-> reg]
    ELSE IF name \in FactoryKeys(reg)
    THEN LET tool == NewTool(FactoryOf(reg, name).cls)
         IN [tool |-> Some(tool),
             reg |-> [reg EXCEPT !.tools = [k \in DOMAIN reg.tools \cup {name} |->
                                               IF k = name THEN tool ELSE reg.tools[k]]]]
    ELSE [tool |-> None, reg |-> reg]

\* ToolRegistry.get: the tool found (or None) and the registry afterwards
RegistryGet(reg, name) ==
    IF name \in DOMAIN reg.tools
    THEN [tool |-> Some(reg.tools[name]), reg |-> reg]
    ELSE IF name \in FactoryKeys(reg)
    THEN LET tool == NewTool(FactoryOf(reg, name).cls)
         IN [tool |-> Some(tool),
             reg |-> [reg EXCEPT !.tools = [k \in DOMAIN reg.tools \cup {name} |->
                                               IF k = name THEN tool ELSE reg.tools[k]]]]
    ELSE LET hits == {i \in 1..Len(reg.factories) :
                         ToolName(reg.factories[i].cls) = name}
         IN IF hits = {}
            THEN [tool |-> None, reg |-> reg]
            ELSE LET i == CHOOSE j \in hits : \A h \in hits : j <= h
                     key == reg.factories[i].key
                     tool == NewTool(reg.factories[i].cls)
                 IN [tool |-> Some(tool),
                     reg |-> [reg EXCEPT !.tools =
                                 [k \in DOMAIN reg.tools \cup {key} |->
                                     IF k = key THEN tool ELSE reg.tools[k]]]]

\* ToolRegistry.list_tools
list_tools(reg) ==
    LET keys == DOMAIN reg.tools \cup FactoryKeys(reg)
    IN SelectSeq(KeyOrder, LAMBDA k : k \in keys)

\* ToolRegistry.get_tool_schemas: the function names of the schemas, in order,
\* and the registry afterwards (get instantiates the factories it meets)
RECURSIVE SchemasFrom(_, _)
SchemasFrom(reg, names) ==
    IF names = << >>
    THEN [schemas |-> << >>, reg |-> reg]
    ELSE LET got == RegistryGet(reg, Head(names))
             rest == SchemasFrom(got.reg, Tail(names))
         IN [schemas |-> (IF IsNone(got.tool) THEN << >> ELSE <<got.tool[1].name>>)
                             \o rest.schemas,
             reg |-> rest.reg]

get_tool_schemas(reg) == SchemasFrom(reg, list_tools(reg))

\* ToolRegistry.__init__ before _auto_discover
EmptyRegistry == [tools |-> << >>, factories |-> << >>]

\* ToolRegistry.register_factory: a dict assignment, so a key already there
\* keeps its place
register_factory(reg, name, cls) ==
    IF name \in FactoryKeys(reg)
    THEN [reg EXCEPT !.factories =
             [i \in 1..Len(reg.factories) |->
                 IF reg.factories[i].key = name THEN [key |-> name, cls |-> cls]
                 ELSE reg.factories[i]]]
    ELSE [reg EXCEPT !.factories = Append(reg.factories, [key |-> name, cls |-> cls])]

\* ToolRegistry.has
has(reg, name) ==
    \/ name \in DOMAIN reg.tools
    \/ name \in FactoryKeys(reg)
    \/ \E i \in 1..Len(reg.factories) : ToolName(reg.factories[i].cls) = name

\* ToolRegistry.clear
clear(reg) == EmptyRegistry

\* attr_name.lower() of the tool classes
ClassKey(cls) ==
    CASE cls = "EchoTool" -> "echotool"
      [] cls = "DummyTool" -> "dummytool"
      [] cls = "AdaptiveTranslationTool" -> "adaptivetranslationtool"
      [] cls = "LanguageDetectionTool" -> "languagedetectiontool"
      [] cls = "MemoryTool" -> "memorytool"
      [] cls = "ReversoAPI" -> "reversoapi"

\* pkgutil.iter_modules over the tools package, in the sorted order it yields
ToolModules == <<"adaptive_translation", "base", "language_detection", "memory_tool",
                 "registry", "reverso_api">>

\* the subclasses of BaseTool that dir(module) finds in a module
ClassesIn(module) ==
    CASE module = "adaptive_translation" -> <<"AdaptiveTranslationTool">>
      [] module = "language_detection" -> <<"LanguageDetectionTool">>
      [] module = "memory_tool" -> <<"MemoryTool">>
      [] module = "reverso_api" -> <<"ReversoAPI">>
      [] OTHER -> << >>

\* importlib.import_module: what importing a module can end in. Modules that
\* import third-party packages (httpx, dotenv, pydantic) raise ImportError
\* where those are not installed; reverso_api subscripts BaseTool, a class
\* that is not generic, in its class statement, which raises TypeError.
ImportOutcomes(module) ==
    CASE module = "adaptive_translation" -> {"ok", "ImportError"}
      [] module = "language_detection" -> {"ok", "ImportError"}
      [] module = "memory_tool" -> {"ok"}
      [] module = "reverso_api" -> {"TypeError"}

\* the for loop over the classes found in one module
RECURSIVE RegisterClasses(_, _)
RegisterClasses(reg, classes) ==
    IF classes = << >> THEN reg
    ELSE RegisterClasses(register_factory(reg, ClassKey(Head(classes)), Head(classes)),
                         Tail(classes))


----------------------------------------------------------------------------
(* ToolExecutor, and the same steps as Agent.execute_tools writes them       *)
(* inline.                                                                   *)

\* ToolExecutor.safe_parse_tool_arguments
safe_parse_tool_arguments(arguments) ==
    LET parsed == JsonLoads(arguments)
    IN IF ~parsed.ok THEN PyDict(<< >>)
       ELSE IF isinstance_dict(parsed.value) THEN parsed.value ELSE PyDict(<< >>)

\* Agent.execute_tools: try json.loads / except JSONDecodeError: {}
agent_parse_tool_arguments(arguments) ==
    LET parsed == JsonLoads(arguments)
    IN IF ~parsed.ok THEN PyDict(<< >>) ELSE parsed.value

ParseArguments(var, arguments) ==
    IF var = "runner" THEN safe_parse_tool_arguments(arguments)
    ELSE agent_parse_tool_arguments(arguments)

\* ToolExecutor.normalize_tool_result
normalize_tool_result(raw_result) ==
    IF isinstance_dict(raw_result) THEN raw_result
    ELSE PyDict(<<Item("result", raw_result)>>)

\* a lookup failure reported without the name that was asked for
tool_not_found_unnamed(tool_name) ==
    PyDict(<<Item("error", PyStr("Tool not found"))>>)

\* the result recorded when registry.get returns None
tool_not_found(tool_name) ==
    PyDict(<<Item("error", PyStr("Tool not found: " \o tool_name))>>)

\* await tool(**tool_args): ** on a value that is no mapping raises TypeError
InvokeTool(tool, tool_args) ==
    IF ~isinstance_dict(tool_args)
    THEN Raised("argument after ** must be a mapping, not " \o tool_args.py)
    ELSE CallTool(tool, tool_args)

\* ToolExecutor.execute, the try/except around the tool call
executor_result(outcome) ==
    IF outcome.raised
    THEN PyDict(<<Item("error", PyStr("Tool execution failed")),
                  Item("details", PyStr(outcome.exc))>>)
    ELSE normalize_tool_result(outcome.value)

\* Agent.execute_tools, the try/except around the tool call
agent_result(outcome) ==
    IF outcome.raised
    THEN PyDict(<<Item("error", PyStr(outcome.exc))>>)
    ELSE outcome.value

ResultOf(var, outcome) ==
    IF var = "runner" THEN executor_result(outcome) ELSE agent_result(outcome)

ToolCallRecord(tool_name, arguments, res) ==
    [tool_name |-> tool_name, arguments |-> arguments, result |-> res]

\* the id the model supplied, kept as it is even when it is empty
call_id_as_given(tc) == tc.id

\* tc.id if tc.id else tc.function.name
call_id(tc) == IF tc.id # "" THEN tc.id ELSE tc.function.name

Message(role, content) ==
    [role |-> role, content |-> content, tool_call_id |-> None, name |-> None,
     tool_calls |-> None]

\* ToolExecutor.build_assistant_tool_message (Agent.execute_tools builds the
\* same dict inline)
build_assistant_tool_message(content, calls) ==
    [role |-> "assistant", content |-> content, tool_call_id |-> None, name |-> None,
     tool_calls |-> Some([i \in 1..Len(calls) |->
                            [id |-> call_id(calls[i]),
                             type |-> "function",
                             function |-> [name |-> calls[i].function.name,
                                           arguments |-> calls[i].function.arguments]]])]

\* ToolExecutor.build_tool_message
build_tool_message(tool_call, tool_name, res) ==
    [role |-> "tool", content |-> JsonDumps(res),
     tool_call_id |-> Some(IF tool_call.id # "" THEN tool_call.id ELSE tool_name),
     name |-> Some(tool_name), tool_calls |-> None]

\* Agent.execute_tools: the tool message, with no name key
agent_tool_message(tc, tool_result) ==
    [role |-> "tool", content |-> JsonDumps(tool_result),
     tool_call_id |-> Some(call_id(tc)), name |-> None, tool_calls |-> None]

ToolMessage(var, tc, tool_name, res) ==
    IF var = "runner" THEN build_tool_message(tc, tool_name, res)
    ELSE agent_tool_message(tc, res)

\* the content of the echo message as the model gave it: message.content or ""
assistant_content_as_given(content) == IF Truthy(content) THEN content[1] ELSE ""

\* message.content or "[TOOL CALL]"
assistant_content(content) == IF Truthy(content) THEN content[1] ELSE "[TOOL CALL]"

\* str(message.content) in place of message.content or ""
final_message_str(content) == IF IsNone(content) THEN "None" ELSE content[1]

\* message.content or ""
final_message(content) == IF Truthy(content) THEN content[1] ELSE ""

\* a loop bound that is off by one: range(max_iterations + 1)
range_has_next_inclusive(i, n) == i <= n

\* for iteration in range(max_iterations): whether another pass is made
range_has_next(i, n) == i < n

\* tool_call_history.insert(0, record)
insert_record_first(history, record) == <<record>> \o history

\* tool_call_history.append(record)
append_record(history, record) == Append(history, record)

\* messages.insert(2, message): the new message put right after the user's
insert_message_early(msgs, msg) == SubSeq(msgs, 1, 2) \o <<msg>> \o SubSeq(msgs, 3, Len(msgs))

\* messages.append(message)
append_message(msgs, msg) == Append(msgs, msg)

AgentResult(type, message, history) ==
    [type |-> type, message |-> message, tool_calls |-> history]


----------------------------------------------------------------------------
(* What the external model may answer.                                       *)

ModelCall(id, name, arguments) ==
    [id |-> id, function |-> [name |-> name, arguments |-> arguments]]

\* the tool calls the model may request: a tool that succeeds, a tool called
\* with JSON that is no object and with broken JSON, a tool that raises (found
\* through its factory), and a name the registry does not know; two carry no id
ModelCalls ==
    { ModelCall("echo_1", "echo_tool", ArgsPing),
      ModelCall("", "dummy_tool", ArgsList),
      ModelCall("dummy_3", "dummy_tool", ArgsBroken),
      ModelCall("tr_4", "adaptive_translation", ArgsTranslate),
      ModelCall("", "missing_tool", ArgsX) }

\* the lists of at most n tool calls
CallLists(n) == UNION {[1..k -> ModelCalls] : k \in 1..n}

\* response.choices[0].message: content and tool_calls, either may be None;
\* n is the number of tool calls the model may still request in this run
Responses(n) ==
    [content : {None, Some(""), Some("Hi there")},
     tool_calls : {None, Some(<< >>)} \cup {Some(calls) : calls \in CallLists(n)}]

\* not tool_calls
NoToolCalls(message) == IsNone(message.tool_calls) \/ message.tool_calls[1] = << >>

\* the tool calls of a response, [] when it has none
CallsOf(response) ==
    IF NoToolCalls(response) THEN << >> ELSE response.tool_calls[1]

\* every tool call the model has requested so far, response by response
RECURSIVE Flatten(_)
Flatten(resps) ==
    IF resps = << >> THEN << >> ELSE CallsOf(Head(resps)) \o Flatten(Tail(resps))

\* the registry of a run: two tools registered as instances and one factory
\* under its case-folded class name, as auto-discovery registers it
InitialRegistry ==
    register(register([tools |-> << >>,
                       factories |-> <<[key |-> "adaptivetranslationtool",
                                        cls |-> "AdaptiveTranslationTool"]>>],
                      NewTool("EchoTool")),
             NewTool("DummyTool"))

SystemPrompt == "You are a language coach."
UserText == "hello"

----------------------------------------------------------------------------
(* The tool loop: ToolLoopRunner.run and Agent.execute_tools.                *)

LoopInit ==
    /\ variant \in {"runner", "agent"}
    /\ max_iterations \in 0..MaxIterations
    /\ pc = "loop"
    /\ iteration = 0
    /\ messages = <<Message("system", SystemPrompt), Message("user", UserText)>>
    /\ tool_call_history = << >>
    /\ tool_calls = << >>
    /\ tc_index = 1
    /\ pending = None
    /\ result = None
    /\ registry = InitialRegistry
    /\ model_calls = 0
    /\ responses = << >>
    /\ started = 0
    /\ finished = 0

\* an inner loop that starts the outer pass again without counting it
NextCallUncounted ==
    IF tc_index < Len(tool_calls)
    THEN /\ tc_index' = tc_index + 1
         /\ pc' = "exec"
         /\ iteration' = iteration
    ELSE /\ tc_index' = 1
         /\ pc' = "loop"
         /\ iteration' = 0

\* after the inner for loop has handled the call at tc_index
NextCall ==
    IF tc_index < Len(tool_calls)
    THEN /\ tc_index' = tc_index + 1
         /\ pc' = "exec"
         /\ iteration' = iteration
    ELSE /\ tc_index' = 1
         /\ pc' = "loop"
         /\ iteration' = iteration + 1

\* one pass of the outer loop up to the inner for loop: the Client is asked
\* and answers with one of choices, and the run returns or the echo message is
\* appended
RequestFrom(choices) ==
    /\ pc = "loop"
    /\ range_has_next(iteration, max_iterations)
    /\ registry' = get_tool_schemas(registry).reg
    /\ model_calls' = model_calls + 1
    /\ \E response \in choices :
          /\ responses' = Append(responses, response)
          /\ IF NoToolCalls(response)
             THEN /\ result' = Some(AgentResult("response",
                                                final_message(response.content),
                                                tool_call_history))
                  /\ pc' = "returned"
                  /\ UNCHANGED <<messages, tool_calls>>
             ELSE /\ messages' = append_message(messages,
                                     build_assistant_tool_message(
                                         assistant_content(response.content),
                                         response.tool_calls[1]))
                  /\ tool_calls' = response.tool_calls[1]
                  /\ pc' = "exec"
                  /\ UNCHANGED result
    /\ UNCHANGED <<variant, max_iterations, iteration, tool_call_history, tc_index,
                   pending, started, finished, memVars, auxVars>>

\* a pass of a run on its own, the model free to ask for what it has left
RequestWithTools == RequestFrom(Responses(MaxCalls - Len(Flatten(responses))))

\* the inner for loop reaches a call: arguments are parsed and the tool is
\* looked up; an unknown tool is recorded at once, a known one is invoked
ExecuteToolCall ==
    /\ pc = "exec"
    /\ LET tc == tool_calls[tc_index]
           tool_name == tc.function.name
           tool_args == ParseArguments(variant, tc.function.arguments)
           got == RegistryGet(registry, tool_name)
       IN /\ registry' = got.reg
          /\ IF IsNone(got.tool)
             THEN LET res == tool_not_found(tool_name)
                  IN /\ tool_call_history' =
                            append_record(tool_call_history,
                                          ToolCallRecord(tool_name, tool_args, res))
                     /\ messages' = append_message(messages,
                                        ToolMessage(variant, tc, tool_name, res))
                     /\ NextCall
                     /\ UNCHANGED <<pending, started>>
             ELSE /\ pending' = Some([tool |-> got.tool[1], tool_name |-> tool_name,
                                      tool_args |-> tool_args])
                  /\ started' = started + 1
                  /\ pc' = "in_tool"
                  /\ UNCHANGED <<messages, tool_call_history, tc_index, iteration>>
    /\ UNCHANGED <<variant, max_iterations, tool_calls, result, model_calls,
                   responses, finished, memVars, auxVars>>

\* the awaited tool returns or raises: the result is recorded and the tool
\* message appended (a tool that leaves the Agent alone; the memory tool has
\* an action of its own)
ToolFinishes ==
    /\ pc = "in_tool"
    /\ pending[1].tool.cls # "MemoryTool"
    /\ LET p == pending[1]
           tc == tool_calls[tc_index]
           res == ResultOf(variant, InvokeTool(p.tool, p.tool_args))
       IN /\ tool_call_history' =
                 append_record(tool_call_history,
                               ToolCallRecord(p.tool_name, p.tool_args, res))
          /\ messages' = append_message(messages,
                             ToolMessage(variant, tc, p.tool_name, res))
    /\ pending' = None
    /\ finished' = finished + 1
    /\ NextCall
    /\ UNCHANGED <<variant, max_iterations, tool_calls, result, registry,
                   model_calls, responses, started, memVars, auxVars>>

\* the for loop is exhausted
MaxIterationsReached ==
    /\ pc = "loop"
    /\ ~range_has_next(iteration, max_iterations)
    /\ result' = Some(AgentResult("error", "Maximum iterations reached",
                                  tool_call_history))
    /\ pc' = "returned"
    /\ UNCHANGED <<variant, max_iterations, iteration, messages, tool_call_history,
                   tool_calls, tc_index, pending, registry, model_calls, responses,
                   started, finished, memVars, auxVars>>

\* the styles UserMemory.__init__ sets
DefaultStyles ==
    [teaching_style |-> "balanced", speaking_style |-> "casual", tone_vibe |-> "chill"]

\* UserMemory.__init__ (a run of the loop alone leaves the memory as it is)
MemInit ==
    /\ conversation_history = << >>
    /\ topics = << >>
    /\ added = << >>
    /\ topic_calls = 0
    /\ last_op = [op |-> "none", arg |-> << >>, before |-> << >>]
    /\ mistake_count = << >>
    /\ learning_gaps = << >>
    /\ mistake_calls = << >>
    /\ styles = DefaultStyles

NoLookup == [op |-> "none", name |-> "", tool |-> None, found |-> FALSE, names |-> << >>]

\* a registry built without auto-discovery and not looked into yet
RegistryReady ==
    /\ auto_discover = FALSE
    /\ reg_pc = "ready"
    /\ disc_queue = << >>
    /\ lookup = NoLookup

NoTurn == [text |-> "", before |-> << >>, outcome |-> "none", result |-> None,
           reply |-> None, known |-> << << >>, << >>, DefaultStyles >>]

\* an Agent that has not been talked to
TurnIdle ==
    /\ base_prompt = SystemPrompt
    /\ turn_count = 0
    /\ last_turn = NoTurn

NoFormatCall == [op |-> "none", name |-> None, values |-> << >>, raised |-> FALSE,
                 exc |-> "", text |-> ""]

\* a FormatRegistry before its file is loaded, never called
FormatIdle ==
    /\ presets = << >>
    /\ active = "translation_default"
    /\ fmt_call = NoFormatCall

\* stream_chat before it is called
NoRoute == [pc |-> "idle", text |-> "", parsed |-> None, decision |-> None,
            branches |-> << >>, detections |-> 0, tool_calls |-> << >>,
            result |-> None, chunks |-> << >>, exc |-> "", det |-> None]

\* AgentService.ask before it is called
NoService == [pc |-> "idle", text |-> "", mode |-> "", pair |-> << >>,
              agent_calls |-> << >>, tool_calls |-> << >>, chat |-> None, out |-> None,
              reply |-> None]

\* no stream_chat and no AgentService call made
\* the TUI before anything is typed
NoTui == [raw |-> "", parts |-> << >>, parsed |-> None]

\* no Agent built
NoAgents == [heap |-> << >>, refs |-> << >>, actor |-> 0, op |-> ""]

\* no DekompositTuiApp built
NoApp == [pc |-> "none"]

AppIdle ==
    /\ route = NoRoute
    /\ service = NoService
    /\ tui = NoTui
    /\ agents = NoAgents
    /\ app = NoApp

LoopNext ==
    \/ RequestWithTools
    \/ ExecuteToolCall
    \/ ToolFinishes
    \/ MaxIterationsReached

\* a run of the loop on a freshly built Agent
Init == LoopInit /\ MemInit /\ RegistryReady /\ TurnIdle /\ FormatIdle /\ AppIdle

Spec == Init /\ [][LoopNext]_vars

\* every Client call and every tool invocation returns, and the loop itself
\* runs on: no step of the run is put off for ever
FairSpec == Spec /\ WF_vars(LoopNext)


----------------------------------------------------------------------------
(* UserMemory. A topic is a string kept as its sequence of characters, so    *)
(* that lower() and strip() are computed.                                    *)

\* len(self.conversation_history) > 50, and the slice [-50:]
HistoryCap == 50

\* longest topic string tried
MaxTopicLen == 2

Chars == {" ", "a", "A"}
TopicStrings == UNION {[1..n -> Chars] : n \in 0..MaxTopicLen}

\* str.lower
lower(str) == [i \in 1..Len(str) |-> IF str[i] = "A" THEN "a" ELSE str[i]]

RECURSIVE lstrip(_)
lstrip(str) ==
    IF str # << >> /\ Head(str) = " " THEN lstrip(Tail(str)) ELSE str

RECURSIVE rstrip(_)
rstrip(str) ==
    IF str # << >> /\ str[Len(str)] = " "
    THEN rstrip(SubSeq(str, 1, Len(str) - 1)) ELSE str

\* str.strip
strip(str) == rstrip(lstrip(str))

\* list[-n:] for n > 0
LastN(list, n) ==
    IF Len(list) <= n THEN list ELSE SubSeq(list, Len(list) - n + 1, Len(list))

\* UserMemory.add_topic: the topics list afterwards
add_topic(tps, topic) ==
    LET topic_lower == strip(lower(topic))
    IN IF topic_lower # << >>
          /\ topic_lower \notin {lower(tps[i]) : i \in 1..Len(tps)}
       THEN Append(tps, topic)
       ELSE tps

\* a trim that keeps the first 50 entries: the slice [:50]
add_message_keep_first(history, role, content) ==
    LET appended == Append(history, [role |-> role, content |-> content])
    IN IF Len(appended) > HistoryCap THEN SubSeq(appended, 1, HistoryCap) ELSE appended

\* UserMemory.add_message: the conversation history afterwards
add_message(history, role, content) ==
    LET appended == Append(history, [role |-> role, content |-> content])
    IN IF Len(appended) > HistoryCap THEN LastN(appended, HistoryCap) ELSE appended

\* memory.add_message(role, content): the n-th message added is "m<n>", sent
\* by the user and the assistant in turn
AddMessage ==
    /\ Len(added) < HistoryCap + ExtraMessages
    /\ LET n == Len(added)
           role == IF n % 2 = 0 THEN "user" ELSE "assistant"
           content == "m" \o ToString(n)
       IN /\ conversation_history' = add_message(conversation_history, role, content)
          /\ added' = Append(added, [role |-> role, content |-> content])
    /\ last_op' = [op |-> "add_message", arg |-> << >>, before |-> << >>]
    /\ UNCHANGED <<topics, topic_calls, mistake_count, learning_gaps, mistake_calls, styles,
                   loopVars, auxVars>>

\* memory.add_topic(topic)
AddTopic ==
    /\ topic_calls < MaxTopicCalls
    /\ topic_calls' = topic_calls + 1
    /\ \E topic \in TopicStrings :
          /\ topics' = add_topic(topics, topic)
          /\ last_op' = [op |-> "add_topic", arg |-> topic, before |-> topics]
    /\ UNCHANGED <<conversation_history, added, mistake_count, learning_gaps,
                   mistake_calls, styles, loopVars, auxVars>>

\* the count at which a mistake type becomes a learning gap
GapThreshold == 5

MistakeTypes == {"grammar", "tense", "article"}

\* self.mistake_count.get(mistake_type, 0)
CountOf(counts, mistake_type) ==
    IF mistake_type \in DOMAIN counts THEN counts[mistake_type] ELSE 0

\* the list as a set, for "in" and "not in"
Elems(list) == {list[i] : i \in 1..Len(list)}

\* an add_mistake that appends on every call at or past the threshold
add_mistake_unguarded(counts, gaps, mistake_type) ==
    LET n == CountOf(counts, mistake_type) + 1
    IN [mistake_count |-> [t \in DOMAIN counts \cup {mistake_type} |->
                              IF t = mistake_type THEN n ELSE counts[t]],
        learning_gaps |-> IF n >= GapThreshold
                          THEN Append(gaps, mistake_type) ELSE gaps]

\* UserMemory.add_mistake: the counters and the learning gaps afterwards
add_mistake(counts, gaps, mistake_type) ==
    LET n == CountOf(counts, mistake_type) + 1
    IN [mistake_count |-> [t \in DOMAIN counts \cup {mistake_type} |->
                              IF t = mistake_type THEN n ELSE counts[t]],
        learning_gaps |-> IF n >= GapThreshold /\ mistake_type \notin Elems(gaps)
                          THEN Append(gaps, mistake_type) ELSE gaps]

\* memory.add_mistake(mistake_type)
AddMistake ==
    /\ Len(mistake_calls) < MaxMistakeCalls
    /\ \E mistake_type \in MistakeTypes :
          LET after == add_mistake(mistake_count, learning_gaps, mistake_type)
          IN /\ mistake_count' = after.mistake_count
             /\ learning_gaps' = after.learning_gaps
             /\ mistake_calls' = Append(mistake_calls, mistake_type)
    /\ last_op' = [op |-> "add_mistake", arg |-> << >>, before |-> << >>]
    /\ UNCHANGED <<conversation_history, topics, added, topic_calls, styles, loopVars, auxVars>>

\* no tool loop runs
LoopStopped ==
    /\ variant = "runner"
    /\ max_iterations = 0
    /\ pc = "idle"
    /\ iteration = 0
    /\ messages = << >>
    /\ tool_call_history = << >>
    /\ tool_calls = << >>
    /\ tc_index = 1
    /\ pending = None
    /\ result = None
    /\ model_calls = 0
    /\ responses = << >>
    /\ started = 0
    /\ finished = 0

\* no tool loop runs while the memory alone is exercised
LoopIdle ==
    LoopStopped /\ registry = InitialRegistry /\ RegistryReady /\ TurnIdle /\ FormatIdle
       /\ AppIdle

\* a fresh UserMemory, exercised on its own
MemOnlyInit == MemInit /\ LoopIdle

\* any sequence of add_message calls
HistorySpec == MemOnlyInit /\ [][AddMessage]_vars

\* any sequence of add_topic calls
TopicSpec == MemOnlyInit /\ [][AddTopic]_vars

\* any sequence of add_mistake calls
MistakeSpec == MemOnlyInit /\ [][AddMistake]_vars


----------------------------------------------------------------------------
(* The ToolRegistry on its own: construction, registration and lookups.      *)

\* the classes passed to register_factory, and the names they are passed under
FactoryClasses == {"DummyTool", "EchoTool", "MemoryTool"}
FactoryNames(cls) ==
    {ClassKey(cls)} \cup (IF cls = "DummyTool" THEN {"dummyfactory"} ELSE {})

\* the strings looked up: keys, declared names and strings that are neither
LookupNames == {"dummytool", "dummyfactory", "dummy_tool", "echotool", "echo_tool",
                "DummyTool", "reverso_api", "missing_tool", "memorytool", "memory"}

\* ToolRegistry(auto_discover=...) up to the call of _auto_discover
RegistryInit ==
    /\ registry = EmptyRegistry
    /\ auto_discover \in BOOLEAN
    /\ reg_pc = IF auto_discover THEN "discovering" ELSE "ready"
    /\ disc_queue = IF auto_discover THEN ToolModules ELSE << >>
    /\ lookup = NoLookup

\* one pass of the for loop of _auto_discover: base and registry are skipped,
\* any other module is imported; ImportError is logged and the loop goes on,
\* any other exception leaves the constructor
ImportModule ==
    /\ reg_pc = "discovering"
    /\ disc_queue # << >>
    /\ LET module == Head(disc_queue)
           rest == Tail(disc_queue)
           after == IF rest = << >> THEN "ready" ELSE "discovering"
       IN /\ disc_queue' = rest
          /\ IF module \in {"base", "registry"}
             THEN /\ reg_pc' = after
                  /\ UNCHANGED registry
             ELSE \E outcome \in ImportOutcomes(module) :
                     CASE outcome = "ok" ->
                             /\ registry' = RegisterClasses(registry, ClassesIn(module))
                             /\ reg_pc' = after
                       [] outcome = "ImportError" ->
                             /\ reg_pc' = after
                             /\ UNCHANGED registry
                       [] OTHER ->
                             /\ reg_pc' = "raised"
                             /\ UNCHANGED registry
    /\ UNCHANGED <<auto_discover, lookup,
                   notRegVars>>

\* registry.register_factory(name, cls)
RegisterFactory ==
    /\ reg_pc = "ready"
    /\ \E cls \in FactoryClasses : \E name \in FactoryNames(cls) :
          /\ registry' = register_factory(registry, name, cls)
          /\ lookup' = [NoLookup EXCEPT !.op = "register_factory", !.name = name]
    /\ UNCHANGED <<auto_discover, reg_pc, disc_queue,
                   notRegVars>>

\* registry.register(DummyTool())
Register ==
    /\ reg_pc = "ready"
    /\ registry' = register(registry, NewTool("DummyTool"))
    /\ lookup' = [NoLookup EXCEPT !.op = "register", !.name = "dummy_tool"]
    /\ UNCHANGED <<auto_discover, reg_pc, disc_queue,
                   notRegVars>>

\* registry.get(name)
Get ==
    /\ reg_pc = "ready"
    /\ \E name \in LookupNames :
          LET got == RegistryGet(registry, name)
          IN /\ registry' = got.reg
             /\ lookup' = [NoLookup EXCEPT !.op = "get", !.name = name,
                                          !.tool = got.tool, !.found = ~IsNone(got.tool)]
    /\ UNCHANGED <<auto_discover, reg_pc, disc_queue,
                   notRegVars>>

\* the key under which the registry holds the tool that get(name) has just
\* returned: name itself, or the key of the first factory whose tool declares
\* that name
StoredKey(reg, name) ==
    IF name \in DOMAIN reg.tools THEN name
    ELSE LET hits == {i \in 1..Len(reg.factories) :
                         ToolName(reg.factories[i].cls) = name}
         IN reg.factories[CHOOSE j \in hits : \A h \in hits : j <= h].key

\* tool = registry.get(name) has returned a memory tool and the caller goes on
\* with tool.set_agent(agent): the tool returned is the object the registry
\* holds
SetAgent ==
    /\ reg_pc = "ready"
    /\ lookup.op = "get"
    /\ lookup.found
    /\ lookup.tool[1].cls = "MemoryTool"
    /\ LET bound == [lookup.tool[1] EXCEPT !.agent = Some("agent")]
       IN /\ registry' = [registry EXCEPT
                             !.tools[StoredKey(registry, lookup.name)] = bound]
          /\ lookup' = [lookup EXCEPT !.op = "set_agent", !.tool = Some(bound)]
    /\ UNCHANGED <<auto_discover, reg_pc, disc_queue,
                   notRegVars>>

\* registry.has(name)
Has ==
    /\ reg_pc = "ready"
    /\ \E name \in LookupNames :
          lookup' = [NoLookup EXCEPT !.op = "has", !.name = name,
                                    !.found = has(registry, name)]
    /\ UNCHANGED <<auto_discover, reg_pc, disc_queue, registry,
                   notRegVars>>

\* registry.list_tools()
ListTools ==
    /\ reg_pc = "ready"
    /\ lookup' = [NoLookup EXCEPT !.op = "list_tools", !.names = list_tools(registry)]
    /\ UNCHANGED <<auto_discover, reg_pc, disc_queue, registry,
                   notRegVars>>

\* registry.get_tool_schemas()
GetToolSchemas ==
    /\ reg_pc = "ready"
    /\ LET got == get_tool_schemas(registry)
       IN /\ registry' = got.reg
          /\ lookup' = [NoLookup EXCEPT !.op = "get_tool_schemas", !.names = got.schemas]
    /\ UNCHANGED <<auto_discover, reg_pc, disc_queue,
                   notRegVars>>

\* registry.clear()
Clear ==
    /\ reg_pc = "ready"
    /\ registry' = clear(registry)
    /\ lookup' = [NoLookup EXCEPT !.op = "clear"]
    /\ UNCHANGED <<auto_discover, reg_pc, disc_queue,
                   notRegVars>>

RegistryNext ==
    \/ ImportModule
    \/ RegisterFactory
    \/ Register
    \/ Get
    \/ SetAgent
    \/ Has
    \/ ListTools
    \/ GetToolSchemas
    \/ Clear

\* a registry exercised on its own
RegistryOnlyInit == RegistryInit /\ LoopStopped /\ MemInit /\ TurnIdle /\ FormatIdle
                       /\ AppIdle

RegistrySpec == RegistryOnlyInit /\ [][RegistryNext]_vars

----------------------------------------------------------------------------
(* A conversation with an Agent: Agent.chat, which calls                     *)
(* Agent.handle_message, which runs Agent.execute_tools.                     *)

\* largest number of chat calls in one conversation
MaxTurns == 2

\* the default of the max_iterations parameter of Agent.execute_tools
DefaultMaxIterations == 5

\* the number of characters of a history entry shown in the prompt
SummaryWidth == 100

UserTexts == {"hello", "use tool"}

\* numbers of messages the memory may hold from earlier turns
PriorMessages == {0, 49}

\* the first n messages of earlier turns, the user and the assistant in turn
PriorAdded(n) ==
    [i \in 1..n |-> [role |-> IF i % 2 = 1 THEN "user" ELSE "assistant",
                     content |-> "m" \o ToString(i - 1)]]

\* what the model answers during a conversation: a final text, or one call of
\* a tool that is registered or of one that is not
TurnResponses ==
    [content : {None, Some(""), Some("Hi there")}, tool_calls : {None, Some(<< >>)}]
        \cup {[content |-> None, tool_calls |-> Some(<<call>>)] :
                 call \in {ModelCall("echo_1", "echo_tool", ArgsPing),
                           ModelCall("", "missing_tool", ArgsX)}}

\* the registry of the conversation: cleared, then EchoTool registered
TurnRegistry == register(clear(InitialRegistry), NewTool("EchoTool"))

\* Agent._get_conversation_summary
conversation_summary(history) ==
    IF history = << >> THEN "No history yet"
    ELSE LET recent == LastN(history, 10)
         IN JoinItems([i \in 1..Len(recent) |->
                          "- " \o recent[i].role \o ": "
                               \o (IF Len(recent[i].content) > SummaryWidth
                                   THEN SubSeq(recent[i].content, 1, SummaryWidth) \o "..."
                                   ELSE recent[i].content)], "\n")

\* the fields of a UserMemory that the prompt and the memory tool read
Memory(gaps, tps, st, history, counts) ==
    [learning_gaps |-> gaps, topics |-> tps, styles |-> st,
     conversation_history |-> history, mistake_count |-> counts]

\* a UserMemory that holds a conversation and nothing else
MemoryWith(history) == Memory(<< >>, << >>, DefaultStyles, history, << >>)

\* Agent._build_base_prompt: the text that depends on the memory, which is
\* what replaces the placeholders of the memory prompt, in the order of the
\* replace calls (a topic is its characters joined)
build_base_prompt(mem) ==
    JoinItems(<<IF mem.learning_gaps # << >> THEN JoinItems(mem.learning_gaps, ", ")
                ELSE "Still learning...",
                IF mem.topics # << >>
                THEN JoinItems([i \in 1..Len(mem.topics) |->
                                   JoinItems(mem.topics[i], "")], ", ")
                ELSE "Nothing specific yet",
                mem.styles.teaching_style,
                mem.styles.speaking_style,
                mem.styles.tone_vibe,
                conversation_summary(mem.conversation_history)>>, "\n")

\* repr() of the values of the model (no string of a conversation holds a
\* quote or a backslash)
RECURSIVE PyRepr(_)
PyRepr(v) ==
    CASE v.py = "str" -> "'" \o v.s \o "'"
      [] v.py = "bool" -> IF v.s = "true" THEN "True" ELSE "False"
      [] v.py = "dict" ->
            "{" \o JoinItems([i \in 1..Len(v.items) |->
                       "'" \o v.items[i].k \o "': " \o PyRepr(v.items[i].val)], ", ")
                \o "}"
      [] v.py = "list" ->
            "[" \o JoinItems([i \in 1..Len(v.items) |-> PyRepr(v.items[i].val)], ", ")
                \o "]"
      [] OTHER -> v.s

\* the dict execute_tools returns, as a value
ResultDict(res) ==
    PyDict(<<Item("type", PyStr(res.type)),
             Item("message", PyStr(res.message)),
             Item("tool_calls",
                  PyList([i \in 1..Len(res.tool_calls) |->
                     Item("", PyDict(<<Item("tool_name", PyStr(res.tool_calls[i].tool_name)),
                                       Item("arguments", res.tool_calls[i].arguments),
                                       Item("result", res.tool_calls[i].result)>>))]))>>)

\* Agent.chat after handle_message has returned (no result of execute_tools
\* has the type "translation")
chat_reply(res) ==
    IF IsNone(res) THEN "Sorry, I couldn't process that."
    ELSE IF res[1].type = "response" THEN res[1].message
    ELSE PyRepr(ResultDict(res[1]))


\* a handle_message that records the assistant entry whatever the message is
record_reply_always(history, res) ==
    IF res.type = "response"
    THEN add_message(history, "assistant", res.message)
    ELSE history

\* Agent.handle_message after execute_tools has returned: the history afterwards
record_reply(history, res) ==
    IF res.type = "response" /\ res.message # ""
    THEN add_message(history, "assistant", res.message)
    ELSE history

\* a freshly built Agent whose registry the caller has set up, with the memory
\* of earlier turns; the prompt was last rebuilt after the last assistant entry
TurnInit ==
    /\ variant = "agent"
    /\ max_iterations = DefaultMaxIterations
    /\ pc = "idle"
    /\ iteration = 0
    /\ messages = << >>
    /\ tool_call_history = << >>
    /\ tool_calls = << >>
    /\ tc_index = 1
    /\ pending = None
    /\ result = None
    /\ registry = TurnRegistry
    /\ model_calls = 0
    /\ responses = << >>
    /\ started = 0
    /\ finished = 0
    /\ \E n \in PriorMessages :
          /\ added = PriorAdded(n)
          /\ conversation_history = PriorAdded(n)
          /\ base_prompt = build_base_prompt(MemoryWith(PriorAdded(n - (n % 2))))
    /\ topics = << >>
    /\ topic_calls = 0
    /\ last_op = [op |-> "none", arg |-> << >>, before |-> << >>]
    /\ mistake_count = << >>
    /\ learning_gaps = << >>
    /\ mistake_calls = << >>
    /\ styles = DefaultStyles
    /\ turn_count = 0
    /\ last_turn = NoTurn
    /\ RegistryReady
    /\ FormatIdle
    /\ AppIdle

\* Agent.chat(text) up to the first request of the run: handle_message records
\* the user entry and execute_tools builds its message list
HandleMessage ==
    /\ pc = "idle"
    /\ turn_count < MaxTurns
    /\ turn_count' = turn_count + 1
    /\ \E text \in UserTexts :
          /\ conversation_history' = add_message(conversation_history, "user", text)
          /\ added' = Append(added, [role |-> "user", content |-> text])
          /\ messages' = <<Message("system", base_prompt), Message("user", text)>>
          /\ last_turn' = [NoTurn EXCEPT !.text = text, !.before = conversation_history,
                                         !.outcome = "running",
                                         !.known = <<learning_gaps, topics, styles>>]
    /\ pc' = "loop"
    /\ iteration' = 0
    /\ tool_call_history' = << >>
    /\ tool_calls' = << >>
    /\ tc_index' = 1
    /\ pending' = None
    /\ result' = None
    /\ model_calls' = 0
    /\ responses' = << >>
    /\ started' = 0
    /\ finished' = 0
    /\ UNCHANGED <<variant, max_iterations, registry, base_prompt, topics, topic_calls,
                   last_op, mistake_count, learning_gaps, mistake_calls, styles, sideVars>>

\* a pass of the run of a conversation
TurnRequestWithTools == RequestFrom(TurnResponses)

\* a loop that catches what the Client raises and has an apology recorded as
\* the assistant's entry of the turn
ClientRaisesAnswered ==
    /\ pc = "loop"
    /\ range_has_next(iteration, max_iterations)
    /\ registry' = get_tool_schemas(registry).reg
    /\ model_calls' = model_calls + 1
    /\ pc' = "idle"
    /\ last_turn' = [last_turn EXCEPT !.outcome = "raised"]
    /\ conversation_history' = add_message(conversation_history, "assistant",
                                           "Sorry, I couldn't process that.")
    /\ UNCHANGED <<variant, max_iterations, iteration, messages, tool_call_history,
                   tool_calls, tc_index, pending, result, responses, started, finished,
                   topics, added, topic_calls, last_op, mistake_count, learning_gaps,
                   mistake_calls, styles, sideVars, base_prompt, turn_count>>

\* client.request_with_tools raises: nothing in execute_tools, handle_message
\* or chat catches, so the exception leaves chat
ClientRaises ==
    /\ pc = "loop"
    /\ range_has_next(iteration, max_iterations)
    /\ registry' = get_tool_schemas(registry).reg
    /\ model_calls' = model_calls + 1
    /\ pc' = "idle"
    /\ last_turn' = [last_turn EXCEPT !.outcome = "raised"]
    /\ UNCHANGED <<variant, max_iterations, iteration, messages, tool_call_history,
                   tool_calls, tc_index, pending, result, responses, started, finished,
                   memVars, sideVars, base_prompt, turn_count>>

\* execute_tools has returned: handle_message records the assistant entry and
\* rebuilds the prompt, and chat turns the result into its reply
HandleMessageReturns ==
    /\ pc = "returned"
    /\ LET res == result[1]
           history == record_reply(conversation_history, res)
       IN /\ conversation_history' = history
          /\ IF history # conversation_history
             THEN /\ added' = Append(added, [role |-> "assistant", content |-> res.message])
                  /\ base_prompt' = build_base_prompt(
                         Memory(learning_gaps, topics, styles, history, mistake_count))
             ELSE UNCHANGED <<added, base_prompt>>
    /\ last_turn' = [last_turn EXCEPT !.outcome = "returned", !.result = result,
                                      !.reply = Some(chat_reply(result))]
    /\ pc' = "idle"
    /\ UNCHANGED <<variant, max_iterations, iteration, messages, tool_call_history,
                   tool_calls, tc_index, pending, result, registry, model_calls,
                   responses, started, finished, topics, topic_calls, last_op,
                   mistake_count, learning_gaps, mistake_calls, styles, sideVars, turn_count>>

TurnNext ==
    \/ HandleMessage
    \/ TurnRequestWithTools
    \/ ClientRaises
    \/ ExecuteToolCall
    \/ ToolFinishes
    \/ MaxIterationsReached
    \/ HandleMessageReturns

TurnSpec == TurnInit /\ [][TurnNext]_vars

----------------------------------------------------------------------------
(* The FormatRegistry and FormatPreset. A template is the sequence of its    *)
(* literal texts and replacement fields; the values of a render call are a   *)
(* record, keyword by keyword.                                               *)

Lit(text) == [field |-> FALSE, text |-> text]
Field(name) == [field |-> TRUE, text |-> name]

Outcome(text) == [raised |-> FALSE, exc |-> "", text |-> text]
Raises(exc) == [raised |-> TRUE, exc |-> exc, text |-> ""]

\* template.format(**kwargs): a field with no keyword raises KeyError, a
\* keyword with no field is ignored
str_format(template, kwargs) ==
    IF \E i \in 1..Len(template) :
          template[i].field /\ template[i].text \notin DOMAIN kwargs
    THEN Raises("KeyError")
    ELSE Outcome(JoinItems([i \in 1..Len(template) |->
                               IF template[i].field THEN kwargs[template[i].text]
                               ELSE template[i].text], ""))

\* FormatPreset.render
FormatPreset_render(preset, kwargs) ==
    LET content == str_format(preset.template, kwargs)
    IN IF content.raised THEN content
       ELSE Outcome(preset.open_tag \o content.text \o preset.close_tag)

\* the entry of a preset in a presets file; a field the file leaves out is None
PresetData(name, open_tag, close_tag, template) ==
    [name |-> name, open_tag |-> open_tag, close_tag |-> close_tag,
     template |-> template]

\* FormatPreset(**preset_data): a required field left out fails validation
PresetIsValid(data) == ~IsNone(data.open_tag) /\ ~IsNone(data.close_tag)

FormatPreset(data) ==
    [name |-> data.name, open_tag |-> data.open_tag[1], close_tag |-> data.close_tag[1],
     template |-> data.template]

TranslationDefault ==
    PresetData("translation_default", Some("<translation>"), Some("</translation>"),
               <<Lit("["), Field("source"), Lit(" → "), Field("target"), Lit("] "),
                 Field("translation")>>)

Existing == PresetData("existing", Some("<x>"), Some("</x>"), <<Field("translation")>>)

\* an entry with no open_tag
Untagged == PresetData("untagged", None, Some("</u>"), <<Field("translation")>>)

PresetsFile(exists, valid, act, entries) ==
    [exists |-> exists, valid |-> valid, active |-> act, entries |-> entries]

\* the presets files a registry is built from: the default file, a file with
\* two presets and another active one, a file with no "active" key and an
\* entry that fails validation, a file whose active preset is not among its
\* presets, a file that is not JSON and a path with no file
FormatFiles ==
    { PresetsFile(TRUE, TRUE, Some("translation_default"), <<TranslationDefault>>),
      PresetsFile(TRUE, TRUE, Some("existing"), <<TranslationDefault, Existing>>),
      PresetsFile(TRUE, TRUE, None, <<Untagged, TranslationDefault>>),
      PresetsFile(TRUE, TRUE, Some("missing_active"), <<Existing>>),
      PresetsFile(TRUE, TRUE, Some("untagged"), <<Untagged, Existing>>),
      PresetsFile(TRUE, FALSE, None, << >>),
      PresetsFile(FALSE, FALSE, None, << >>) }

\* the for loop of _load_from_file: entries that fail validation are skipped
RECURSIVE LoadEntries(_, _)
LoadEntries(loaded, entries) ==
    IF entries = << >> THEN loaded
    ELSE LET data == Head(entries)
             next == IF PresetIsValid(data)
                     THEN [n \in DOMAIN loaded \cup {data.name} |->
                              IF n = data.name THEN FormatPreset(data) ELSE loaded[n]]
                     ELSE loaded
         IN LoadEntries(next, Tail(entries))

\* FormatRegistry.__init__ and _load_from_file: _presets and _active afterwards
load_from_file(file) ==
    IF ~file.exists \/ ~file.valid
    THEN [presets |-> << >>, active |-> "translation_default"]
    ELSE [presets |-> LoadEntries(<< >>, file.entries),
          active |-> IF IsNone(file.active) THEN "translation_default"
                     ELSE file.active[1]]

Found(preset) == [raised |-> FALSE, exc |-> "", preset |-> Some(preset)]
NotFound(exc) == [raised |-> TRUE, exc |-> exc, preset |-> None]

\* a get_active that falls back to some loaded preset
FormatRegistry_get_active_or_any(ps, act) ==
    IF act \in DOMAIN ps THEN Found(ps[act])
    ELSE IF DOMAIN ps # {}
    THEN Found(ps[CHOOSE n \in DOMAIN ps : TRUE])
    ELSE NotFound("ValueError")

\* FormatRegistry.get_active
FormatRegistry_get_active(ps, act) ==
    IF act \in DOMAIN ps THEN Found(ps[act]) ELSE NotFound("ValueError")

\* FormatRegistry.get
FormatRegistry_get(ps, name) == IF name \in DOMAIN ps THEN Some(ps[name]) ELSE None

\* a render that raises for a name that is not loaded
FormatRegistry_render_strict(ps, act, preset_name, kwargs) ==
    IF Truthy(preset_name)
    THEN IF IsNone(FormatRegistry_get(ps, preset_name[1])) THEN Raises("ValueError")
         ELSE FormatPreset_render(FormatRegistry_get(ps, preset_name[1])[1], kwargs)
    ELSE LET got == FormatRegistry_get_active(ps, act)
         IN IF got.raised THEN Raises(got.exc)
            ELSE FormatPreset_render(got.preset[1], kwargs)

\* FormatRegistry.render
FormatRegistry_render(ps, act, preset_name, kwargs) ==
    LET named == IF Truthy(preset_name) THEN FormatRegistry_get(ps, preset_name[1])
                 ELSE None
        got == IF IsNone(named) THEN FormatRegistry_get_active(ps, act)
               ELSE Found(named[1])
    IN IF got.raised THEN Raises(got.exc)
       ELSE FormatPreset_render(got.preset[1], kwargs)

\* the preset names passed to render and get
RenderNames == {None, Some(""), Some("missing"), Some("translation_default"),
                Some("existing"), Some("untagged")}

\* the keyword arguments passed to render
RenderValues ==
    { [source |-> "EN", target |-> "RU", translation |-> "Privet"],
      [source |-> "EN", target |-> "SK", translation |-> "Ahoj"],
      [translation |-> "Ahoj"],
      [source |-> "EN", target |-> "SK", translation |-> "Ahoj", note |-> "n"] }

\* FormatRegistry(file_path=...)
FormatInit ==
    /\ \E file \in FormatFiles :
          /\ presets = load_from_file(file).presets
          /\ active = load_from_file(file).active
    /\ fmt_call = NoFormatCall

\* formats.render(preset_name, **kwargs)
Render ==
    /\ \E preset_name \in RenderNames : \E kwargs \in RenderValues :
          LET out == FormatRegistry_render(presets, active, preset_name, kwargs)
          IN fmt_call' = [op |-> "render", name |-> preset_name, values |-> kwargs,
                          raised |-> out.raised, exc |-> out.exc, text |-> out.text]
    /\ UNCHANGED <<presets, active, notFmtVars>>

\* formats.get_active()
GetActive ==
    /\ LET got == FormatRegistry_get_active(presets, active)
       IN fmt_call' = [NoFormatCall EXCEPT !.op = "get_active", !.raised = got.raised,
                                            !.exc = got.exc,
                                            !.text = IF got.raised THEN ""
                                                     ELSE got.preset[1].name]
    /\ UNCHANGED <<presets, active, notFmtVars>>

FormatNext ==
    \/ Render
    \/ GetActive

\* a FormatRegistry exercised on its own
FormatOnlyInit == FormatInit /\ LoopStopped /\ registry = InitialRegistry
                     /\ RegistryReady /\ MemInit /\ TurnIdle /\ AppIdle

FormatSpec == FormatOnlyInit /\ [][FormatNext]_vars

----------------------------------------------------------------------------
(* The routing layer: Agent.stream_chat, Agent._decide_action and the two    *)
(* branches. The texts of this layer are strings.                            *)

LowerCase == "abcdefghijklmnopqrstuvwxyz"
UpperCase == "ABCDEFGHIJKLMNOPQRSTUVWXYZ"

\* the characters of a string, one by one
CharsOf(str) == [i \in 1..Len(str) |-> SubSeq(str, i, i)]

\* each letter of one alphabet with the letter at its place in the other
CaseMap(from, to) ==
    [c \in {SubSeq(from, i, i) : i \in 1..Len(from)} |->
        SubSeq(to, CHOOSE i \in 1..Len(from) : SubSeq(from, i, i) = c,
                   CHOOSE i \in 1..Len(from) : SubSeq(from, i, i) = c)]

ToLower == CaseMap(UpperCase, LowerCase)
ToUpper == CaseMap(LowerCase, UpperCase)

\* str.lower and str.upper
str_lower(str) == JoinItems([i \in 1..Len(str) |->
                                IF SubSeq(str, i, i) \in DOMAIN ToLower
                                THEN ToLower[SubSeq(str, i, i)] ELSE SubSeq(str, i, i)], "")
str_upper(str) == JoinItems([i \in 1..Len(str) |->
                                IF SubSeq(str, i, i) \in DOMAIN ToUpper
                                THEN ToUpper[SubSeq(str, i, i)] ELSE SubSeq(str, i, i)], "")

IsSpace(c) == c \in {" ", "\t", "\n"}

\* str.strip of a string
RECURSIVE str_strip(_)
str_strip(str) ==
    IF str = "" THEN ""
    ELSE IF IsSpace(SubSeq(str, 1, 1)) THEN str_strip(SubSeq(str, 2, Len(str)))
    ELSE IF IsSpace(SubSeq(str, Len(str), Len(str)))
    THEN str_strip(SubSeq(str, 1, Len(str) - 1))
    ELSE str

\* sub in str
str_contains(str, sub) ==
    \E i \in 1..(Len(str) - Len(sub) + 1) : SubSeq(str, i, i + Len(sub) - 1) = sub

\* ToolDecision
ToolDecision(action, text, source_lang, target_lang) ==
    [action |-> action, text |-> text, source_lang |-> source_lang,
     target_lang |-> target_lang]

\* a _decide_action that trusts the action of the model
decide_action_as_parsed(text, parsed) ==
    IF IsNone(parsed) THEN ToolDecision("translate", text, None, None)
    ELSE [parsed[1] EXCEPT !.text = IF str_strip(parsed[1].text) = "" THEN text
                                    ELSE parsed[1].text]

\* Agent._decide_action once client.request has returned; parsed is
\* response.choices[0].message.parsed
decide_action(text, parsed) ==
    IF IsNone(parsed) THEN ToolDecision("translate", text, None, None)
    ELSE [parsed[1] EXCEPT !.text = IF str_strip(parsed[1].text) = "" THEN text
                                    ELSE parsed[1].text,
                           !.action = IF parsed[1].action \notin {"translate", "respond"}
                                      THEN "translate" ELSE parsed[1].action]

\* topic_keywords of _extract_topics_from_text, in the order of the dict
TopicKeywords ==
    << [topic |-> "weather",
        keywords |-> {"weather", "sun", "rain", "snow", "hot", "cold", "temperature"}],
       [topic |-> "food",
        keywords |-> {"food", "eat", "cook", "restaurant", "recipe", "breakfast",
                      "lunch", "dinner"}],
       [topic |-> "travel",
        keywords |-> {"travel", "trip", "vacation", "flight", "hotel", "country", "city"}],
       [topic |-> "work",
        keywords |-> {"work", "job", "office", "meeting", "boss", "colleague"}],
       [topic |-> "family",
        keywords |-> {"family", "mother", "father", "brother", "sister", "kid", "child"}],
       [topic |-> "sports",
        keywords |-> {"sport", "football", "tennis", "run", "gym", "exercise"}],
       [topic |-> "music", keywords |-> {"music", "song", "band", "concert", "play"}],
       [topic |-> "movies", keywords |-> {"movie", "film", "watch", "series", "show"}],
       [topic |-> "technology",
        keywords |-> {"tech", "computer", "phone", "internet", "ai", "software"}] >>

HasKeyword(entry, text) == \E kw \in entry.keywords : str_contains(text, kw)

\* Agent._extract_topics_from_text
RECURSIVE TopicsFrom(_, _)
TopicsFrom(entries, text) ==
    IF entries = << >> THEN << >>
    ELSE (IF HasKeyword(Head(entries), text) THEN <<Head(entries).topic>> ELSE << >>)
            \o TopicsFrom(Tail(entries), text)

extract_topics_from_text(text) == TopicsFrom(TopicKeywords, text)

\* the for loop of _update_memory_on_translation over memory.add_topic
RECURSIVE AddTopics(_, _)
AddTopics(tps, found) ==
    IF found = << >> THEN tps
    ELSE AddTopics(add_topic(tps, CharsOf(Head(found))), Tail(found))

\* Agent._update_memory_on_translation: the topics afterwards
update_memory_on_translation(tps, decision) ==
    IF Truthy(decision.source_lang) /\ Truthy(decision.target_lang)
    THEN AddTopics(tps, extract_topics_from_text(str_lower(decision.text)))
    ELSE tps

PyNone == [py |-> "NoneType", s |-> "None", items |-> << >>]

\* dict.get(key, default)
PyGet(d, key, default) == IF key \in Keys(d) THEN DictGet(d, key) ELSE default

\* bool(v) of a string, a list, a dict or None
PyTruthy(v) ==
    CASE v.py = "str" -> v.s # ""
      [] v.py \in {"list", "dict"} -> v.items # << >>
      [] v.py = "NoneType" -> FALSE
      [] OTHER -> TRUE

\* valid_langs of _handle_translation and of _detect_language
ValidLangs == {"en", "ru", "uk", "sk"}

\* what the detection request gives: the client raises, the response has no
\* parsed value, or it names a language
DetectOutcomes ==
    { [raised |-> TRUE, parsed |-> None],
      [raised |-> FALSE, parsed |-> None],
      [raised |-> FALSE, parsed |-> Some("sk")],
      [raised |-> FALSE, parsed |-> Some("other")] }

\* Agent._detect_language
detect_language(det) ==
    IF det.raised \/ IsNone(det.parsed) THEN None
    ELSE IF det.parsed[1] \in ValidLangs THEN det.parsed ELSE None

\* the Adaptive MT response with these translations
MTPayload(translations) ==
    PyDict(<<Item("request", PyDict(<< >>)),
             Item("response", PyDict(<<Item("translations", translations)>>))>>)

Translated(key, text) == Item("", PyDict(<<Item(key, PyStr(text))>>))

ToolReturns(payload) == [kind |-> "returns", payload |-> payload, status |-> 0, text |-> ""]
ToolRaises(kind, status, text) ==
    [kind |-> kind, payload |-> PyNone, status |-> status, text |-> text]

\* what a call of the translation tool gives: a payload, an HTTP error
\* (status and body) or another exception (message)
ToolOutcomes ==
    { ToolReturns(MTPayload(PyList(<<Translated("translatedText", "Good day")>>))),
      ToolReturns(MTPayload(PyList(<<Translated("translatedText", "")>>))),
      ToolReturns(MTPayload(PyList(<< >>))),
      ToolReturns(PyDict(<<Item("request", PyDict(<< >>))>>)),
      ToolReturns(PyDict(<<Item("response", PyList(<< >>))>>)),
      ToolRaises("HTTPStatusError", 404, "Adaptive MT dataset Not Found"),
      ToolRaises("HTTPStatusError", 500, "dataset not found"),
      ToolRaises("Exception", 0, "Resource NOT FOUND"),
      ToolRaises("Exception", 0, "Invalid input for AdaptiveTranslationTool") }

DatasetMissing(text) ==
    \/ str_contains(str_lower(text), "adaptive mt dataset")
    \/ str_contains(str_lower(text), "not found")

Translation(source_lang, target_lang, translation, raw) ==
    [type |-> "translation", source_lang |-> source_lang, target_lang |-> target_lang,
     translation |-> translation, method |-> "adaptive_mt", raw |-> raw]

HandledAs(raised, exc, res, detections, calls, reg) ==
    [raised |-> raised, exc |-> exc, result |-> res, detections |-> detections,
     tool_calls |-> calls, reg |-> reg]

\* the lines of _handle_translation after the tool has returned
translation_from(payload, source_lang, target_lang, detections, calls, reg) ==
    LET response_payload == PyGet(payload, "response", PyDict(<< >>))
    IN IF response_payload.py # "dict"
       THEN HandledAs(TRUE, "AttributeError", None, detections, calls, reg)
       ELSE LET translations == PyGet(response_payload, "translations", PyList(<< >>))
                first == IF PyTruthy(translations)
                         THEN PyGet(translations.items[1].val, "translatedText", PyNone)
                         ELSE PyNone
            IN IF ~PyTruthy(first)
               THEN HandledAs(FALSE, "", None, detections, calls, reg)
               ELSE HandledAs(FALSE, "",
                              Some(Translation(source_lang, target_lang, first.s,
                                               response_payload)),
                              detections, calls, reg)

\* _handle_translation taking the codes of the decision as they are given
handle_translation_as_given(decision, det, reg, out) ==
    LET Valid(lang) == lang
        given == Valid(decision.source_lang)
        target_lang == Valid(decision.target_lang)
        detections == IF IsNone(given) THEN 1 ELSE 0
        source_lang == IF IsNone(given) THEN detect_language(det) ELSE given
    IN IF ~Truthy(source_lang) \/ ~Truthy(target_lang)
       THEN HandledAs(FALSE, "", None, detections, << >>, reg)
       ELSE LET got == RegistryGet(reg, "adaptive_translation")
                call == [text |-> decision.text, source_lang |-> source_lang[1],
                         target_lang |-> target_lang[1],
                         dataset_id |-> "adaptive-" \o source_lang[1] \o "-"
                                           \o target_lang[1]]
            IN IF IsNone(got.tool)
               THEN HandledAs(FALSE, "", None, detections, << >>, got.reg)
               ELSE IF out.kind = "HTTPStatusError"
               THEN IF out.status \in {400, 404} /\ DatasetMissing(out.text)
                    THEN HandledAs(FALSE, "", None, detections, <<call>>, got.reg)
                    ELSE HandledAs(TRUE, out.kind, None, detections, <<call>>, got.reg)
               ELSE IF out.kind = "Exception"
               THEN IF DatasetMissing(out.text)
                    THEN HandledAs(FALSE, "", None, detections, <<call>>, got.reg)
                    ELSE HandledAs(TRUE, out.kind, None, detections, <<call>>, got.reg)
               ELSE translation_from(out.payload, source_lang[1], target_lang[1],
                                     detections, <<call>>, got.reg)

\* Agent._handle_translation, with what the detection request and the tool
\* call give when they are made
handle_translation(decision, det, reg, out) ==
    LET Valid(lang) == IF ~IsNone(lang) /\ lang[1] \in ValidLangs THEN lang ELSE None
        given == Valid(decision.source_lang)
        target_lang == Valid(decision.target_lang)
        detections == IF IsNone(given) THEN 1 ELSE 0
        source_lang == IF IsNone(given) THEN detect_language(det) ELSE given
    IN IF ~Truthy(source_lang) \/ ~Truthy(target_lang)
       THEN HandledAs(FALSE, "", None, detections, << >>, reg)
       ELSE LET got == RegistryGet(reg, "adaptive_translation")
                call == [text |-> decision.text, source_lang |-> source_lang[1],
                         target_lang |-> target_lang[1],
                         dataset_id |-> "adaptive-" \o source_lang[1] \o "-"
                                           \o target_lang[1]]
            IN IF IsNone(got.tool)
               THEN HandledAs(FALSE, "", None, detections, << >>, got.reg)
               ELSE IF out.kind = "HTTPStatusError"
               THEN IF out.status \in {400, 404} /\ DatasetMissing(out.text)
                    THEN HandledAs(FALSE, "", None, detections, <<call>>, got.reg)
                    ELSE HandledAs(TRUE, out.kind, None, detections, <<call>>, got.reg)
               ELSE IF out.kind = "Exception"
               THEN IF DatasetMissing(out.text)
                    THEN HandledAs(FALSE, "", None, detections, <<call>>, got.reg)
                    ELSE HandledAs(TRUE, out.kind, None, detections, <<call>>, got.reg)
               ELSE translation_from(out.payload, source_lang[1], target_lang[1],
                                     detections, <<call>>, got.reg)

\* Agent.format_translation
format_translation(ps, act, res) ==
    FormatRegistry_render(ps, act, None,
                          [source |-> str_upper(res.source_lang),
                           target |-> str_upper(res.target_lang),
                           translation |-> res.translation])

\* default.json, the presets file of FormatRegistry()
DefaultFile == PresetsFile(TRUE, TRUE, Some("translation_default"), <<TranslationDefault>>)

\* the registries of a routed Agent: the translation tool registered, its
\* factory registered, or neither
RouteRegistries ==
    { register(EmptyRegistry, NewTool("AdaptiveTranslationTool")),
      register_factory(EmptyRegistry, "adaptivetranslationtool", "AdaptiveTranslationTool"),
      TurnRegistry }

\* the texts sent to stream_chat
RouteTexts == {"hello", "What is the Weather in the city"}

\* what the routing request gives as message.parsed when it returns
ParsedDecisions ==
    {None} \cup
    { Some(ToolDecision(action, text, langs[1], langs[2])) :
         action \in {"translate", "respond", "summarize"},
         text \in {"", " \n", "Cook dinner"},
         langs \in {<<None, None>>, <<Some("en"), Some("sk")>>,
                    <<Some("de"), Some("en")>>, <<Some("sk"), None>>,
                    <<Some("en"), Some("de")>>} }

\* what client.stream gives: the chunks yielded and whether it raised then
StreamOutcomes ==
    { [chunks |-> << >>, raised |-> FALSE],
      [chunks |-> <<"Hi", " there">>, raised |-> FALSE],
      [chunks |-> <<"Hi">>, raised |-> TRUE],
      [chunks |-> << >>, raised |-> TRUE] }

\* an Agent with the default presets and an empty memory, before stream_chat
RouteInit ==
    /\ LoopStopped
    /\ registry \in RouteRegistries
    /\ MemInit
    /\ RegistryReady
    /\ base_prompt = build_base_prompt(MemoryWith(<< >>))
    /\ turn_count = 0
    /\ last_turn = NoTurn
    /\ presets = load_from_file(DefaultFile).presets
    /\ active = load_from_file(DefaultFile).active
    /\ fmt_call = NoFormatCall
    /\ AppIdle

routeFrame == <<loopButRegistry, regVars, last_turn, presets, active, fmt_call, service, tui,
                agents, app,
                topic_calls, last_op, mistake_count, learning_gaps, mistake_calls, styles>>

\* stream_chat(text) up to the routing request: the user entry is recorded
StreamChat ==
    /\ route.pc \in {"idle", "done", "raised"}
    /\ turn_count < MaxTurns
    /\ turn_count' = turn_count + 1
    /\ \E text \in RouteTexts :
          /\ conversation_history' = add_message(conversation_history, "user", text)
          /\ added' = Append(added, [role |-> "user", content |-> text])
          /\ route' = [NoRoute EXCEPT !.pc = "deciding", !.text = text]
    /\ UNCHANGED <<registry, topics, base_prompt, routeFrame>>

\* _decide_action: the routing request returns
DecideAction ==
    /\ route.pc = "deciding"
    /\ \E parsed \in ParsedDecisions :
          route' = [route EXCEPT !.pc = "decided", !.parsed = parsed,
                                 !.decision = Some(decide_action(route.text, parsed))]
    /\ UNCHANGED <<registry, memVars, base_prompt, turn_count, routeFrame>>

\* _decide_action: the routing request raises, and so does stream_chat
DecideActionRaises ==
    /\ route.pc = "deciding"
    /\ route' = [route EXCEPT !.pc = "raised", !.exc = "ClientError"]
    /\ UNCHANGED <<registry, memVars, base_prompt, turn_count, routeFrame>>

\* the translation branch of stream_chat: _handle_translation, then the
\* apology or the formatted translation and the memory update
TranslationBranch ==
    /\ route.pc = "decided"
    /\ route.decision[1].action = "translate"
    /\ \E det \in DetectOutcomes : \E out \in ToolOutcomes :
          LET decision == route.decision[1]
              done == handle_translation(decision, det, registry, out)
              entered == [route EXCEPT !.branches = Append(@, "translation"),
                                       !.detections = done.detections,
                                       !.det = IF done.detections = 0 THEN None
                                               ELSE Some(det),
                                       !.tool_calls = done.tool_calls,
                                       !.result = done.result]
              rendered == format_translation(presets, active, done.result[1])
          IN /\ registry' = done.reg
             /\ IF done.raised
                THEN /\ route' = [entered EXCEPT !.pc = "raised", !.exc = done.exc]
                     /\ UNCHANGED <<topics, base_prompt>>
                ELSE IF IsNone(done.result)
                THEN /\ route' = [entered EXCEPT
                                     !.pc = "done",
                                     !.chunks = <<"Sorry, I couldn't process that.">>]
                     /\ UNCHANGED <<topics, base_prompt>>
                ELSE IF rendered.raised
                THEN /\ route' = [entered EXCEPT !.pc = "raised", !.exc = rendered.exc]
                     /\ UNCHANGED <<topics, base_prompt>>
                ELSE /\ route' = [entered EXCEPT !.pc = "done",
                                                 !.chunks = <<rendered.text>>]
                     /\ topics' = update_memory_on_translation(topics, decision)
                     /\ base_prompt' = build_base_prompt(
                            Memory(learning_gaps, topics', styles, conversation_history,
                                   mistake_count))
    /\ UNCHANGED <<conversation_history, added, turn_count, routeFrame>>

\* the response branch of stream_chat: the chunks of _handle_response_stream
ResponseBranch ==
    /\ route.pc = "decided"
    /\ route.decision[1].action # "translate"
    /\ \E stream \in StreamOutcomes :
          route' = [route EXCEPT !.branches = Append(@, "response"),
                                 !.chunks = stream.chunks,
                                 !.pc = IF stream.raised THEN "raised" ELSE "done",
                                 !.exc = IF stream.raised THEN "ClientError" ELSE ""]
    /\ UNCHANGED <<registry, memVars, base_prompt, turn_count, routeFrame>>

RouteNext ==
    \/ StreamChat
    \/ DecideAction
    \/ DecideActionRaises
    \/ TranslationBranch
    \/ ResponseBranch

\* an Agent talked to through stream_chat
RouteSpec == RouteInit /\ [][RouteNext]_vars

----------------------------------------------------------------------------
(* The TUI service: AgentService.ask, extract_translation_text and           *)
(* parse_assistant_text.                                                     *)

\* the character references of the texts of the model and what html.unescape
\* puts in their place ("&#1;" names an invalid code point and gives nothing)
CharRefs ==
    << [ref |-> "&lt;", char |-> "<"], [ref |-> "&gt;", char |-> ">"],
       [ref |-> "&amp;", char |-> "&"], [ref |-> "&#39;", char |-> "'"],
       [ref |-> "&#1;", char |-> ""] >>

StartsWith(str, prefix) ==
    Len(str) >= Len(prefix) /\ SubSeq(str, 1, Len(prefix)) = prefix

EndsWith(str, suffix) ==
    Len(str) >= Len(suffix) /\ SubSeq(str, Len(str) - Len(suffix) + 1, Len(str)) = suffix

\* html.unescape, left to right
RECURSIVE unescape(_)
unescape(str) ==
    IF str = "" THEN ""
    ELSE LET hits == {i \in 1..Len(CharRefs) : StartsWith(str, CharRefs[i].ref)}
         IN IF hits = {} THEN SubSeq(str, 1, 1) \o unescape(SubSeq(str, 2, Len(str)))
            ELSE LET r == CharRefs[CHOOSE i \in hits : TRUE]
                 IN r.char \o unescape(SubSeq(str, Len(r.ref) + 1, Len(str)))

\* a or b of two values
PyOr(a, b) == IF PyTruthy(a) THEN a ELSE b

\* the for loop of extract_translation_text
RECURSIVE FirstCandidate(_)
FirstCandidate(entries) ==
    IF entries = << >> THEN None
    ELSE LET entry == Head(entries).val
             candidate == PyOr(PyGet(entry, "translatedText", PyNone),
                               PyGet(entry, "translation", PyNone))
         IN IF entry.py = "dict" /\ candidate.py = "str" /\ str_strip(candidate.s) # ""
            THEN Some(unescape(str_strip(candidate.s)))
            ELSE FirstCandidate(Tail(entries))

\* extract_translation_text of a dict payload
extract_translation_text(payload) ==
    LET response == PyGet(payload, "response", PyNone)
        translations == PyGet(response, "translations", PyNone)
    IN IF response.py # "dict" THEN None
       ELSE IF translations.py # "list" THEN None
       ELSE FirstCandidate(translations.items)

\* the tags of _TRANSLATED_PATTERNS, in order
TranslatedTags ==
    << [open |-> "<translated>", close |-> "</translated>"],
       [open |-> "<translation>", close |-> "</translation>"] >>

\* pattern.fullmatch(text): the body, or None
FullMatch(tag, text) ==
    IF /\ Len(text) >= Len(tag.open) + Len(tag.close)
       /\ StartsWith(str_lower(text), tag.open)
       /\ EndsWith(str_lower(text), tag.close)
    THEN Some(SubSeq(text, Len(tag.open) + 1, Len(text) - Len(tag.close)))
    ELSE None

\* pattern.search(text): the body of the leftmost match, as short as it can be
Search(tag, text) ==
    LET low == str_lower(text)
        At(i, part) == i + Len(part) - 1 <= Len(low) /\ SubSeq(low, i, i + Len(part) - 1) = part
        Closes(i) == {j \in (i + Len(tag.open))..Len(low) : At(j, tag.close)}
        opens == {i \in 1..Len(low) : At(i, tag.open) /\ Closes(i) # {}}
    IN IF opens = {} THEN None
       ELSE LET i == CHOOSE k \in opens : \A o \in opens : k <= o
                j == CHOOSE k \in Closes(i) : \A c \in Closes(i) : k <= c
            IN Some(SubSeq(text, i + Len(tag.open), j - 1))

ParsedAssistantText(text, kind) == [text |-> text, kind |-> kind]

\* parse_assistant_text
parse_assistant_text(text, default_kind) ==
    LET stripped == str_strip(text)
        full == {i \in 1..Len(TranslatedTags) : FullMatch(TranslatedTags[i], stripped) # None}
        found == {i \in 1..Len(TranslatedTags) : Search(TranslatedTags[i], stripped) # None}
        First(hits) == CHOOSE i \in hits : \A h \in hits : i <= h
    IN IF stripped = "" THEN ParsedAssistantText("", default_kind)
       ELSE IF full # {}
       THEN ParsedAssistantText(str_strip(FullMatch(TranslatedTags[First(full)], stripped)[1]),
                                "translated")
       ELSE IF found # {}
       THEN ParsedAssistantText(str_strip(Search(TranslatedTags[First(found)], stripped)[1]),
                                "translated")
       ELSE ParsedAssistantText(stripped, default_kind)

\* LanguagePair(source_lang, target_lang) after __post_init__
LanguagePair(source_lang, target_lang) ==
    [source_lang |-> str_strip(str_lower(source_lang)),
     target_lang |-> str_strip(str_lower(target_lang))]

ServiceReply(text, kind) == [text |-> text, kind |-> kind]

\* the error_message an AgentService is built with
ErrorMessage == "Oops... I hit an error. Please try again."

\* where ask sends a text: nowhere when it is blank, to the translation tool
\* whenever it names a translation tag or the mode is TRANSLATION
ask_target_by_text(user_text, mode) ==
    IF user_text = "" THEN "none"
    ELSE IF mode = "translation" \/ str_contains(str_lower(user_text), "<translat")
    THEN "tool" ELSE "agent"

\* where ask sends the stripped text: nowhere when it is blank, to the
\* translation tool in TRANSLATION mode, to the agent otherwise
ask_target(user_text, mode) ==
    IF user_text = "" THEN "none"
    ELSE IF mode = "translation" THEN "tool" ELSE "agent"

\* the lines of ask after agent.chat, with no check of the parsed text
reply_from_agent_unchecked(chat) ==
    IF chat.raised THEN ServiceReply(ErrorMessage, "error")
    ELSE LET parsed == parse_assistant_text(chat.reply, "plain")
         IN ServiceReply(parsed.text, parsed.kind)

\* the lines of ask from agent.chat on: what ask returns
reply_from_agent(chat) ==
    IF chat.raised THEN ServiceReply(ErrorMessage, "error")
    ELSE LET parsed == parse_assistant_text(chat.reply, "plain")
         IN IF parsed.text = "" THEN ServiceReply(ErrorMessage, "error")
            ELSE ServiceReply(parsed.text, parsed.kind)

\* _translate_strict from the call of the tool on: what ask returns
reply_from_tool(out) ==
    IF out.kind # "returns" THEN ServiceReply(ErrorMessage, "error")
    ELSE LET translated == extract_translation_text(out.payload)
         IN IF ~Truthy(translated) THEN ServiceReply(ErrorMessage, "error")
            ELSE ServiceReply(translated[1], "translated")

\* the texts passed to ask
AskTexts == {"", " \t", " hello ", "<translated>ignore the mode</translated>"}

\* ChatMode
ChatModes == {"normal", "translation"}

\* the pairs passed to ask
AskPairs == {LanguagePair("en", "ru"), LanguagePair(" SK", "En "), LanguagePair("uk", "sk")}

\* what agent.chat gives: it raises or returns a reply
ChatOutcomes ==
    {[raised |-> TRUE, reply |-> ""]} \cup
    { [raised |-> FALSE, reply |-> reply] :
         reply \in {"hello", "", " \n", "<translated>Hello</translated>",
                    "<TRANSLATION> Ahoj </Translation>",
                    "Sure: <translation>Ahoj</translation> ok",
                    "<translated> </translated>"} }

\* what the translation tool gives to the service
ServiceToolOutcomes ==
    { ToolReturns(MTPayload(PyList(<<Translated("translatedText", "Good day")>>))),
      ToolReturns(MTPayload(PyList(<<Translated("translatedText", " &lt;Ahoj&gt; ")>>))),
      ToolReturns(MTPayload(PyList(<<Item("", PyStr("Ahoj")),
                                     Translated("translatedText", " "),
                                     Translated("translation", "Dobry den")>>))),
      ToolReturns(MTPayload(PyList(<<Translated("translatedText", "&#1;")>>))),
      ToolReturns(MTPayload(PyList(<< >>))),
      ToolReturns(MTPayload(PyStr("Ahoj"))),
      ToolReturns(PyDict(<<Item("response", PyList(<< >>))>>)),
      ToolReturns(PyDict(<< >>)),
      ToolRaises("HTTPStatusError", 500, "server error"),
      ToolRaises("Exception", 0, "translator boom") }

\* an AgentService built with an agent and a translation tool, never asked
ServiceInit == LoopIdle /\ MemInit

serviceFrame == <<loopVars, memVars, regVars, turnVars, fmtVars, route, tui, agents, app>>

\* service.ask(text, mode, pair) up to its first await: a blank text is
\* answered at once, any other is passed to the tool or to the agent
Ask ==
    /\ service.pc \in {"idle", "returned"}
    /\ \E text \in AskTexts : \E mode \in ChatModes : \E pair \in AskPairs :
          LET user_text == str_strip(text)
              target == ask_target(user_text, mode)
              asked == [NoService EXCEPT !.text = text, !.mode = mode, !.pair = pair]
          IN service' =
                IF target = "none"
                THEN [asked EXCEPT !.pc = "returned",
                                   !.reply = Some(ServiceReply("", "plain"))]
                ELSE IF target = "tool"
                THEN [asked EXCEPT !.pc = "in_tool",
                                   !.tool_calls = <<[text |-> user_text,
                                                     source_lang |-> pair.source_lang,
                                                     target_lang |-> pair.target_lang]>>]
                ELSE [asked EXCEPT !.pc = "in_agent", !.agent_calls = <<user_text>>]
    /\ UNCHANGED serviceFrame

\* agent.chat returns or raises, and ask returns
ChatEnds ==
    /\ service.pc = "in_agent"
    /\ \E chat \in ChatOutcomes :
          service' = [service EXCEPT !.pc = "returned", !.chat = Some(chat),
                                     !.reply = Some(reply_from_agent(chat))]
    /\ UNCHANGED serviceFrame

\* the translation tool returns or raises, and ask returns
TranslateStrictEnds ==
    /\ service.pc = "in_tool"
    /\ \E out \in ServiceToolOutcomes :
          service' = [service EXCEPT !.pc = "returned", !.out = Some(out),
                                     !.reply = Some(reply_from_tool(out))]
    /\ UNCHANGED serviceFrame

ServiceNext ==
    \/ Ask
    \/ ChatEnds
    \/ TranslateStrictEnds

ServiceSpec == ServiceInit /\ [][ServiceNext]_vars

----------------------------------------------------------------------------
(* The TUI input parser: parse_input.                                        *)

\* SUPPORTED_LANGUAGES
SUPPORTED_LANGUAGES == <<"en", "ru", "uk", "sk">>

\* the codes of SUPPORTED_LANGUAGES as a set
Codes == {SUPPORTED_LANGUAGES[i] : i \in 1..Len(SUPPORTED_LANGUAGES)}

\* every two codes put together, the same code twice included
AllPairCommands == {p[1] \o p[2] : p \in Codes \X Codes}

\* SUPPORTED_PAIR_COMMANDS
SUPPORTED_PAIR_COMMANDS ==
    {p[1] \o p[2] : p \in {q \in Codes \X Codes : q[1] # q[2]}}

\* str.partition(" "): the text before the first space and the text after it
partition_space(str) ==
    LET spaces == {i \in 1..Len(str) : SubSeq(str, i, i) = " "}
    IN IF spaces = {} THEN [head |-> str, tail |-> ""]
       ELSE LET i == CHOOSE k \in spaces : \A o \in spaces : k <= o
            IN [head |-> SubSeq(str, 1, i - 1), tail |-> SubSeq(str, i + 1, Len(str))]

\* str.isalpha of a string of the model: not empty and letters only
isalpha(str) ==
    /\ str # ""
    /\ \A i \in 1..Len(str) :
          SubSeq(str, i, i) \in DOMAIN ToLower \cup DOMAIN ToUpper

ParsedInput(text, pair, error) == [text |-> text, pair |-> pair, error |-> error]

\* parse_input
parse_input(raw_text) ==
    LET stripped == str_strip(raw_text)
        command_token == partition_space(stripped).head
        remainder == partition_space(stripped).tail
        command == str_lower(SubSeq(command_token, 2, Len(command_token)))
    IN IF stripped = "" THEN ParsedInput(None, None, None)
       ELSE IF ~StartsWith(stripped, "/") THEN ParsedInput(Some(stripped), None, None)
       ELSE IF command \in SUPPORTED_PAIR_COMMANDS
       THEN ParsedInput(IF str_strip(remainder) = "" THEN None
                        ELSE Some(str_strip(remainder)),
                        Some(LanguagePair(SubSeq(command, 1, 2), SubSeq(command, 3, 4))),
                        None)
       ELSE IF Len(command) = 4 /\ isalpha(command)
       THEN IF SubSeq(command, 1, 2) = SubSeq(command, 3, 4)
            THEN ParsedInput(None, None,
                             Some("Source and target language cannot be the same."))
            ELSE ParsedInput(None, None,
                             Some("Unsupported language pair '/" \o command
                                     \o "'. Supported languages: "
                                     \o JoinItems(SUPPORTED_LANGUAGES, ", ") \o "."))
       ELSE ParsedInput(None, None,
                        Some("Unknown command '" \o command_token
                                \o "'. Use /enru style commands."))

\* the two-letter halves of the commands typed
TypedCodes == {"en", "RU", "uk", "Sk", "de"}

\* the command tokens typed: every two halves after a slash, other commands,
\* and tokens that are no command
TypedTokens ==
    {"/" \o a \o b : a \in TypedCodes, b \in TypedCodes}
       \cup {"/", "/en", "/help", "/enr1", "/enrus", "", "hello"}

\* what is typed around the token
TypedLeads == {"", " \t"}
TypedRests == {"", " ", "  how to do it ", "\thello"}

\* parse_input(raw_text) on what was typed
ParseInput ==
    /\ \E lead \in TypedLeads : \E token \in TypedTokens : \E rest \in TypedRests :
          LET raw == lead \o token \o rest
          IN tui' = [raw |-> raw,
                     parts |-> <<lead, token, rest>>,
                     parsed |-> Some(parse_input(raw))]
    /\ UNCHANGED <<loopVars, memVars, regVars, turnVars, fmtVars, route, service,
                   agents, app>>

\* a TUI that parses what is typed
ParseInit == LoopIdle /\ MemInit

ParseSpec == ParseInit /\ [][ParseInput]_vars

----------------------------------------------------------------------------
(* Runs of the tool loop over tools that return a value of any type. Both    *)
(* loops run: ToolLoopRunner.run and Agent.execute_tools.                    *)

\* the calls the model may request: a tool that returns a string, two that
\* return a mapping, and one that raises
RecordCalls ==
    { ModelCall("plain_1", "plain_tool", ArgsX),
      ModelCall("echo_1", "echo_tool", ArgsPing),
      ModelCall("", "dummy_tool", ArgsX),
      ModelCall("tr_4", "adaptive_translation", ArgsTranslate) }

\* a final text, or one or two of these calls
RecordResponses ==
    [content : {None, Some("Hi there")}, tool_calls : {None}]
        \cup {[content |-> None, tool_calls |-> Some(calls)] :
                 calls \in [1..1 -> RecordCalls] \cup [1..2 -> RecordCalls]}

\* the registry of these runs: the caller has registered the string tool too
RecordRegistry == register(InitialRegistry, NewTool("PlainTool"))

RecordInit ==
    /\ variant \in {"runner", "agent"}
    /\ max_iterations \in 0..MaxIterations
    /\ pc = "loop"
    /\ iteration = 0
    /\ messages = <<Message("system", SystemPrompt), Message("user", UserText)>>
    /\ tool_call_history = << >>
    /\ tool_calls = << >>
    /\ tc_index = 1
    /\ pending = None
    /\ result = None
    /\ registry = RecordRegistry
    /\ model_calls = 0
    /\ responses = << >>
    /\ started = 0
    /\ finished = 0
    /\ MemInit
    /\ RegistryReady
    /\ TurnIdle
    /\ FormatIdle
    /\ AppIdle

RecordRequestWithTools == RequestFrom(RecordResponses)

RecordNext ==
    \/ RecordRequestWithTools
    \/ ClientRaises
    \/ ExecuteToolCall
    \/ ToolFinishes
    \/ MaxIterationsReached

RecordSpec == RecordInit /\ [][RecordNext]_vars

----------------------------------------------------------------------------
(* The memory tool, and conversations of an Agent whose model asks for it.   *)

MemoryParams == {"action", "learning_gap", "topic", "teaching_style", "speaking_style",
                 "tone_vibe", "remove_item", "remove_type"}

\* a list of strings as a value
StrList(list) == PyList([i \in 1..Len(list) |-> Item("", PyStr(list[i]))])

\* the topics as strings
TopicTexts(tps) == [i \in 1..Len(tps) |-> JoinItems(tps[i], "")]

\* list.remove(x) for an x that is in the list
RemoveFirst(list, x) ==
    LET i == CHOOSE j \in 1..Len(list) :
                 list[j] = x /\ \A h \in 1..(j - 1) : list[h] # x
    IN SubSeq(list, 1, i - 1) \o SubSeq(list, i + 1, Len(list))

\* memory.mistake_count as a value (the mistake types in one fixed order)
CountDict(counts) ==
    LET known == SelectSeq(<<"grammar", "tense", "article">>,
                           LAMBDA m : m \in DOMAIN counts)
    IN PyDict([i \in 1..Len(known) |-> Item(known[i], PyInt(counts[known[i]]))])

\* the entries of the returned dict that show the memory; the lists are the
\* lists of the memory themselves, not copies
MemoryEntries(mem) ==
    <<Item("learning_gaps", StrList(mem.learning_gaps)),
      Item("topics", StrList(TopicTexts(mem.topics))),
      Item("teaching_style", PyStr(mem.styles.teaching_style)),
      Item("speaking_style", PyStr(mem.styles.speaking_style)),
      Item("tone_vibe", PyStr(mem.styles.tone_vibe))>>

\* a memory tool whose add appends the learning gap whether or not the list
\* holds it
MemoryEdit_appending(mem, action, kw) ==
    LET learning_gap == PyGet(kw, "learning_gap", PyNone)
        remove_item == PyGet(kw, "remove_item", PyNone)
        remove_type == PyGet(kw, "remove_type", PyNone)
    IN CASE action = PyStr("add") /\ PyTruthy(learning_gap) ->
              [mem EXCEPT !.learning_gaps = Append(@, learning_gap.s)]
         [] action = PyStr("remove") /\ remove_type = PyStr("learning_gap")
               /\ PyTruthy(remove_item) /\ remove_item.s \in Elems(mem.learning_gaps) ->
              [mem EXCEPT !.learning_gaps = RemoveFirst(@, remove_item.s)]
         [] action = PyStr("clear") /\ remove_type = PyStr("learning_gaps") ->
              [mem EXCEPT !.learning_gaps = << >>]
         [] OTHER -> mem

\* the memory after the branch of MemoryTool.__call__ that action selects
MemoryEdit(mem, action, kw) ==
    LET learning_gap == PyGet(kw, "learning_gap", PyNone)
        topic == PyGet(kw, "topic", PyNone)
        teaching_style == PyGet(kw, "teaching_style", PyNone)
        speaking_style == PyGet(kw, "speaking_style", PyNone)
        tone_vibe == PyGet(kw, "tone_vibe", PyNone)
        remove_item == PyGet(kw, "remove_item", PyNone)
        remove_type == PyGet(kw, "remove_type", PyNone)
    IN CASE action = PyStr("add") ->
              [mem EXCEPT
                 !.learning_gaps =
                     IF PyTruthy(learning_gap) /\ learning_gap.s \notin Elems(@)
                     THEN Append(@, learning_gap.s) ELSE @,
                 !.topics = IF PyTruthy(topic) THEN add_topic(@, CharsOf(topic.s)) ELSE @]
         [] action = PyStr("set") ->
              [mem EXCEPT
                 !.styles.teaching_style =
                     IF PyTruthy(teaching_style) THEN teaching_style.s ELSE @,
                 !.styles.speaking_style =
                     IF PyTruthy(speaking_style) THEN speaking_style.s ELSE @,
                 !.styles.tone_vibe = IF PyTruthy(tone_vibe) THEN tone_vibe.s ELSE @]
         [] action = PyStr("remove") ->
              IF remove_type = PyStr("learning_gap") /\ PyTruthy(remove_item)
              THEN [mem EXCEPT !.learning_gaps =
                       IF remove_item.s \in Elems(@) THEN RemoveFirst(@, remove_item.s)
                       ELSE @]
              ELSE IF remove_type = PyStr("topic") /\ PyTruthy(remove_item)
              THEN [mem EXCEPT !.topics =
                       IF CharsOf(remove_item.s) \in Elems(@)
                       THEN RemoveFirst(@, CharsOf(remove_item.s)) ELSE @]
              ELSE mem
         [] action = PyStr("clear") ->
              IF remove_type = PyStr("learning_gaps")
              THEN [mem EXCEPT !.learning_gaps = << >>]
              ELSE IF remove_type = PyStr("topics") THEN [mem EXCEPT !.topics = << >>]
              ELSE IF remove_type = PyStr("history")
              THEN [mem EXCEPT !.conversation_history = << >>]
              ELSE mem
         [] OTHER -> mem

\* MemoryTool.__call__(**kwargs) with the memory of the Agent the tool refers
\* to: what it returns or raises, the memory afterwards, and whether
\* _rebuild_base_prompt was called
MemoryTool_call(tool, kwargs, mem) ==
    IF "action" \notin Keys(kwargs)
    THEN [outcome |-> Raised("MemoryTool.__call__() missing 1 required positional argument: 'action'"),
          mem |-> mem, rebuilt |-> FALSE]
    ELSE IF ~(Keys(kwargs) \subseteq MemoryParams)
    THEN [outcome |-> Raised("MemoryTool.__call__() got an unexpected keyword argument"),
          mem |-> mem, rebuilt |-> FALSE]
    ELSE IF IsNone(tool.agent)
    THEN [outcome |-> Returned(PyDict(<<Item("status", PyStr("error")),
                                        Item("message", PyStr("Agent memory not available"))>>)),
          mem |-> mem, rebuilt |-> FALSE]
    ELSE LET action == DictGet(kwargs, "action")
         IN IF action = PyStr("get")
            THEN [outcome |-> Returned(PyDict(
                                 <<Item("status", PyStr("success"))>>
                                 \o MemoryEntries(mem)
                                 \o <<Item("mistake_count",
                                           CountDict(mem.mistake_count))>>)),
                  mem |-> mem, rebuilt |-> FALSE]
            ELSE LET after == MemoryEdit(mem, action, kwargs)
                 IN [outcome |-> Returned(PyDict(
                                    <<Item("status", PyStr("success")),
                                      Item("message", PyStr("Memory updated: " \o action.s))>>
                                    \o MemoryEntries(after))),
                     mem |-> after, rebuilt |-> TRUE]

\* a result the memory tool returned earlier holds the lists and the dict of
\* the memory, so it shows what they hold now
Aliased(res, mem) ==
    IF isinstance_dict(res) /\ "learning_gaps" \in Keys(res)
    THEN PyDict([i \in 1..Len(res.items) |->
                    IF res.items[i].k = "learning_gaps"
                    THEN Item("learning_gaps", StrList(mem.learning_gaps))
                    ELSE IF res.items[i].k = "topics"
                    THEN Item("topics", StrList(TopicTexts(mem.topics)))
                    ELSE IF res.items[i].k = "mistake_count"
                    THEN Item("mistake_count", CountDict(mem.mistake_count))
                    ELSE res.items[i]])
    ELSE res

\* the model asks for the memory tool: an add, a set, a get or a remove
MemoryCalls ==
    { ModelCall("mem_1", "memory", ArgsAddTopic),
      ModelCall("", "memory", ArgsAddGap),
      ModelCall("mem_3", "memory", ArgsSetTone),
      ModelCall("mem_4", "memory", ArgsGet),
      ModelCall("mem_5", "memory", ArgsRemoveTopic) }

\* a final text, or one memory call while the model has calls left in the turn
MemoryResponses(n) ==
    [content : {None, Some("Hi there")}, tool_calls : {None}]
        \cup (IF n > 0
              THEN {[content |-> None, tool_calls |-> Some(<<call>>)] : call \in MemoryCalls}
              ELSE {})

\* the memory tool as ToolRegistry(auto_discover=True) of Agent.__init__ holds
\* it: the factory of the class, which builds MemoryTool() with no Agent
DiscoveredMemoryTool == register_factory(EmptyRegistry, "memorytool", "MemoryTool")

\* MemoryTool(agent): a memory tool that refers to the Agent
BoundMemoryTool == [NewTool("MemoryTool") EXCEPT !.agent = Some("agent")]

\* a registry in which the caller has registered MemoryTool(agent)
CallerBoundMemoryTool == register(EmptyRegistry, BoundMemoryTool)

\* a freshly built Agent with the memory tool as its only tool, as built or
\* registered by the caller
MemoryToolInit ==
    /\ variant = "agent"
    /\ max_iterations = DefaultMaxIterations
    /\ pc = "idle"
    /\ iteration = 0
    /\ messages = << >>
    /\ tool_call_history = << >>
    /\ tool_calls = << >>
    /\ tc_index = 1
    /\ pending = None
    /\ result = None
    /\ registry \in {DiscoveredMemoryTool, CallerBoundMemoryTool}
    /\ model_calls = 0
    /\ responses = << >>
    /\ started = 0
    /\ finished = 0
    /\ MemInit
    /\ base_prompt = build_base_prompt(MemoryWith(<< >>))
    /\ turn_count = 0
    /\ last_turn = NoTurn
    /\ RegistryReady
    /\ FormatIdle
    /\ AppIdle

MemoryRequestWithTools ==
    RequestFrom(MemoryResponses(MaxCalls - Len(Flatten(responses))))

\* the awaited memory tool returns or raises: the memory is edited and the
\* prompt rebuilt as the tool does, the result is recorded and the tool
\* message appended
MemoryToolFinishes ==
    /\ pc = "in_tool"
    /\ pending[1].tool.cls = "MemoryTool"
    /\ LET p == pending[1]
           tc == tool_calls[tc_index]
           mem == Memory(learning_gaps, topics, styles, conversation_history,
                         mistake_count)
           called == IF ~isinstance_dict(p.tool_args)
                     THEN [outcome |-> Raised("argument after ** must be a mapping, not "
                                              \o p.tool_args.py),
                           mem |-> mem, rebuilt |-> FALSE]
                     ELSE MemoryTool_call(p.tool, p.tool_args, mem)
           res == ResultOf(variant, called.outcome)
       IN /\ learning_gaps' = called.mem.learning_gaps
          /\ topics' = called.mem.topics
          /\ styles' = called.mem.styles
          /\ conversation_history' = called.mem.conversation_history
          /\ base_prompt' = IF called.rebuilt THEN build_base_prompt(called.mem)
                            ELSE base_prompt
          /\ tool_call_history' =
                 append_record(
                     [i \in 1..Len(tool_call_history) |->
                         [tool_call_history[i] EXCEPT !.result = Aliased(@, called.mem)]],
                     ToolCallRecord(p.tool_name, p.tool_args, res))
          /\ messages' = append_message(messages,
                             ToolMessage(variant, tc, p.tool_name, res))
    /\ pending' = None
    /\ finished' = finished + 1
    /\ NextCall
    /\ UNCHANGED <<variant, max_iterations, tool_calls, result, registry,
                   model_calls, responses, started, added, topic_calls, last_op,
                   mistake_count, mistake_calls, turn_count, last_turn, sideVars>>

\* the model asks for at most MaxCalls tool calls in a turn, so the budget of
\* DefaultMaxIterations passes is never used up
MemoryToolNext ==
    \/ HandleMessage
    \/ MemoryRequestWithTools
    \/ ClientRaises
    \/ ExecuteToolCall
    \/ MemoryToolFinishes
    \/ HandleMessageReturns

MemoryToolSpec == MemoryToolInit /\ [][MemoryToolNext]_vars

----------------------------------------------------------------------------
(* Two Agent instances in one process. The objects of the process are on a   *)
(* heap and an Agent holds its registry and its memory by reference, so that *)
(* what two instances share is decided by where the constructors allocate.   *)

AgentIds == {1, 2}

Obj(cls, val) == [cls |-> cls, val |-> val]

\* a new object: the heap with it and the place it is at
Alloc(hp, obj) == [heap |-> Append(hp, obj), at |-> Len(hp) + 1]

Places(hp, cls) == {i \in 1..Len(hp) : hp[i].cls = cls}

\* UserMemory.__init__: the lists and the dict are made for the instance
UserMemory_new(hp) == Alloc(hp, Obj("UserMemory", MemoryWith(<< >>)))

\* the registry of a built Agent: the factories that _auto_discover registers
\* for the translation tool and the memory tool
DiscoveredRegistry ==
    register_factory(register_factory(EmptyRegistry, "adaptivetranslationtool",
                                      "AdaptiveTranslationTool"),
                     "memorytool", "MemoryTool")

\* a ToolRegistry whose dicts belong to the class: every instance after the
\* first refers to the dicts of the first
ToolRegistry_of_class(hp) ==
    IF Places(hp, "ToolRegistry") # {}
    THEN [heap |-> hp, at |-> CHOOSE i \in Places(hp, "ToolRegistry") : TRUE]
    ELSE Alloc(hp, Obj("ToolRegistry", DiscoveredRegistry))

\* ToolRegistry.__init__(auto_discover=True): _tools and _tool_factories are
\* made for the instance
ToolRegistry_new(hp) == Alloc(hp, Obj("ToolRegistry", DiscoveredRegistry))

\* the api key and endpoint of the settings, which every Client of the process
\* reads
SettingsKey == <<"sk-key", "https://endpoint">>

\* Client._client_for(api_key, endpoint) under lru_cache: the AsyncOpenAI made
\* for this key the first time, for every Client
client_for(hp, key) ==
    LET hits == {i \in Places(hp, "AsyncOpenAI") : hp[i].val.key = key}
    IN IF hits # {}
       THEN [heap |-> hp, at |-> CHOOSE i \in hits : TRUE]
       ELSE Alloc(hp, Obj("AsyncOpenAI", [key |-> key, requests |-> 0]))

\* Agent.__init__: the registry, the memory and the prompt built from it
Agent_new(hp) ==
    LET reg == ToolRegistry_new(hp)
        mem == UserMemory_new(reg.heap)
    IN [heap |-> mem.heap,
        agent |-> [registry |-> reg.at, memory |-> mem.at,
                   base_prompt |-> build_base_prompt(mem.heap[mem.at].val),
                   client_key |-> SettingsKey, pc |-> "idle", turn_count |-> 0,
                   calls |-> 0, ops |-> 0, pending |-> None]]

\* two Agents built one after the other
PairInit ==
    /\ LoopStopped
    /\ registry = InitialRegistry
    /\ MemInit
    /\ RegistryReady
    /\ TurnIdle
    /\ FormatIdle
    /\ route = NoRoute
    /\ service = NoService
    /\ tui = NoTui
    /\ app = NoApp
    /\ LET first == Agent_new(<< >>)
           second == Agent_new(first.heap)
       IN agents = [heap |-> second.heap, refs |-> <<first.agent, second.agent>>,
                    actor |-> 0, op |-> "init"]

pairFrame == <<loopVars, memVars, regVars, turnVars, fmtVars, route, service, tui, app>>

\* the memory and the registry an Agent refers to
MemoryOf(ag, a) == ag.heap[ag.refs[a].memory].val
RegistryOf(ag, a) == ag.heap[ag.refs[a].registry].val

\* the turns begun, the tool calls requested and the direct calls made so far,
\* by both Agents
TurnsBegun == agents.refs[1].turn_count + agents.refs[2].turn_count
CallsRequested == agents.refs[1].calls + agents.refs[2].calls
CallsMade == agents.refs[1].ops + agents.refs[2].ops

\* Agent a has taken the step op, which left the heap hp and its fields me
Acted(a, op, hp, me) ==
    agents' = [heap |-> hp, refs |-> [agents.refs EXCEPT ![a] = me],
               actor |-> a, op |-> op]

\* handle_message(text) of one of the Agents up to its first request
PairHandleMessage ==
    /\ \E a \in AgentIds :
          LET me == agents.refs[a]
          IN /\ me.pc = "idle"
             /\ TurnsBegun < MaxTurns
             /\ Acted(a, "handle_message",
                      [agents.heap EXCEPT ![me.memory].val.conversation_history =
                          add_message(@, "user", "hello")],
                      [me EXCEPT !.pc = "requesting", !.turn_count = @ + 1])
    /\ UNCHANGED pairFrame

\* a final text, or one memory call while the model has calls left
PairResponses(n) ==
    {[content |-> "Hi there", tool_calls |-> None]}
        \cup (IF n > 0
              THEN {[content |-> "", tool_calls |-> Some(ModelCall("mem_1", "memory",
                                                                  ArgsAddTopic))]}
              ELSE {})

\* the request of an Agent returns through the AsyncOpenAI of its key: a tool
\* call to execute, or the text that handle_message records before it
\* rebuilds the prompt
PairClientReturns ==
    /\ \E a \in AgentIds :
          LET me == agents.refs[a]
              client == client_for(agents.heap, me.client_key)
              sent == [client.heap EXCEPT ![client.at].val.requests = @ + 1]
          IN /\ me.pc = "requesting"
             /\ \E response \in PairResponses(MaxCalls - CallsRequested) :
                   IF response.tool_calls # None
                   THEN Acted(a, "request", sent,
                              [me EXCEPT !.pc = "tool", !.calls = @ + 1,
                                         !.pending = response.tool_calls])
                   ELSE LET history == record_reply(
                                sent[me.memory].val.conversation_history,
                                [type |-> "response", message |-> response.content])
                            hp == [sent EXCEPT ![me.memory].val.conversation_history =
                                      history]
                        IN Acted(a, "reply", hp,
                                 [me EXCEPT
                                    !.pc = "idle",
                                    !.base_prompt =
                                        IF response.content # ""
                                        THEN build_base_prompt(hp[me.memory].val)
                                        ELSE @])
    /\ UNCHANGED pairFrame

\* the tool call of an Agent is executed: registry.get on its registry, and
\* for a memory tool the edit of the memory of the Agent the tool is bound to
\* and the rebuild of that Agent's prompt
PairToolRuns ==
    /\ \E a \in AgentIds :
          LET me == agents.refs[a]
              call == me.pending[1]
              got == RegistryGet(RegistryOf(agents, a), call.function.name)
              cached == [agents.heap EXCEPT ![me.registry].val = got.reg]
              waiting == [me EXCEPT !.pc = "requesting", !.pending = None]
          IN /\ me.pc = "tool"
             /\ IF IsNone(got.tool) \/ got.tool[1].cls # "MemoryTool"
                   \/ IsNone(got.tool[1].agent)
                THEN Acted(a, "tool", cached, waiting)
                ELSE LET owner == got.tool[1].agent[1]
                         place == agents.refs[owner].memory
                         res == MemoryTool_call(got.tool[1],
                                                JsonLoads(call.function.arguments).value,
                                                cached[place].val)
                         hp == [cached EXCEPT ![place].val = res.mem]
                         prompt == IF res.rebuilt THEN build_base_prompt(res.mem)
                                   ELSE agents.refs[owner].base_prompt
                     IN agents' = [heap |-> hp,
                                   refs |-> [[agents.refs EXCEPT ![a] = waiting]
                                                EXCEPT ![owner].base_prompt = prompt],
                                   actor |-> a, op |-> "tool"]
    /\ UNCHANGED pairFrame

\* the tool a caller registers with an Agent: a memory tool bound to it
PairTools(a) == {[NewTool("MemoryTool") EXCEPT !.agent = Some(a)]}

\* a call of the registry of one of the Agents: register, clear or get
PairRegistryCall ==
    /\ \E a \in AgentIds :
          LET me == agents.refs[a]
              reg == RegistryOf(agents, a)
          IN /\ CallsMade < MaxCalls
             /\ \E after \in {register(reg, tool) : tool \in PairTools(a)}
                                \cup {clear(reg)}
                                \cup {RegistryGet(reg, name).reg :
                                         name \in {"adaptive_translation"}} :
                   Acted(a, "registry", [agents.heap EXCEPT ![me.registry].val = after],
                         [me EXCEPT !.ops = @ + 1])
    /\ UNCHANGED pairFrame

\* a call of the memory of one of the Agents: add_topic
PairMemoryCall ==
    /\ \E a \in AgentIds :
          LET me == agents.refs[a]
              mem == MemoryOf(agents, a)
          IN /\ CallsMade < MaxCalls
             /\ \E after \in {[mem EXCEPT !.topics = add_topic(@, CharsOf("sea"))]} :
                   Acted(a, "memory", [agents.heap EXCEPT ![me.memory].val = after],
                         [me EXCEPT !.ops = @ + 1])
    /\ UNCHANGED pairFrame

\* _rebuild_base_prompt of one of the Agents
PairRebuild ==
    /\ \E a \in AgentIds :
          LET me == agents.refs[a]
          IN /\ CallsMade < MaxCalls
             /\ Acted(a, "rebuild", agents.heap,
                      [me EXCEPT !.ops = @ + 1,
                                 !.base_prompt = build_base_prompt(MemoryOf(agents, a))])
    /\ UNCHANGED pairFrame

PairNext ==
    \/ PairHandleMessage
    \/ PairClientReturns
    \/ PairToolRuns
    \/ PairRegistryCall
    \/ PairMemoryCall
    \/ PairRebuild

\* two Agents whose turns and calls interleave
PairSpec == PairInit /\ [][PairNext]_vars

----------------------------------------------------------------------------
(* UserMemory.to_markdown.                                                   *)

\* the slices of to_markdown: [-10:] of the history and [:100] of a content
ShownEntries == 10
ShownWidth == 100

\* a to_markdown that shows the whole history and the whole of every content
to_markdown_whole(mem) ==
    LET gaps == IF mem.learning_gaps # << >> THEN JoinItems(mem.learning_gaps, ", ")
                ELSE "Still learning..."
        tps == IF mem.topics # << >> THEN JoinItems(TopicTexts(mem.topics), ", ")
               ELSE "Nothing specific yet"
        history == IF mem.conversation_history # << >>
                   THEN JoinItems([i \in 1..Len(mem.conversation_history) |->
                                      "- " \o mem.conversation_history[i].role \o ": "
                                           \o mem.conversation_history[i].content
                                           \o "..."], "\n")
                   ELSE "No history yet"
    IN "## What I Know About You\n\n### Learning Gaps\n" \o gaps
          \o "\n\n### Topics You Enjoy\n" \o tps
          \o "\n\n### Teaching Style Preference\n" \o mem.styles.teaching_style
          \o "\n\n### Speaking Style\n" \o mem.styles.speaking_style
          \o "\n\n### Tone & Vibe\n" \o mem.styles.tone_vibe
          \o "\n\n### Conversation History\n" \o history \o "\n"

\* UserMemory.to_markdown: the string returned (a topic is its characters
\* joined); every history line ends with "...", cut or not
to_markdown(mem) ==
    LET gaps == IF mem.learning_gaps # << >> THEN JoinItems(mem.learning_gaps, ", ")
                ELSE "Still learning..."
        tps == IF mem.topics # << >> THEN JoinItems(TopicTexts(mem.topics), ", ")
               ELSE "Nothing specific yet"
        recent == LastN(mem.conversation_history, ShownEntries)
        history == IF mem.conversation_history # << >>
                   THEN JoinItems([i \in 1..Len(recent) |->
                                      "- " \o recent[i].role \o ": "
                                           \o SubSeq(recent[i].content, 1,
                                                     IF Len(recent[i].content) < ShownWidth
                                                     THEN Len(recent[i].content)
                                                     ELSE ShownWidth)
                                           \o "..."], "\n")
                   ELSE "No history yet"
    IN "## What I Know About You\n\n### Learning Gaps\n" \o gaps
          \o "\n\n### Topics You Enjoy\n" \o tps
          \o "\n\n### Teaching Style Preference\n" \o mem.styles.teaching_style
          \o "\n\n### Speaking Style\n" \o mem.styles.speaking_style
          \o "\n\n### Tone & Vibe\n" \o mem.styles.tone_vibe
          \o "\n\n### Conversation History\n" \o history \o "\n"

\* a filling of n characters
Ten == "aaaaaaaaaa"
Filled(n) ==
    SubSeq(Ten \o Ten \o Ten \o Ten \o Ten \o Ten \o Ten \o Ten \o Ten \o Ten
              \o Ten \o Ten \o Ten \o Ten \o Ten, 1, n)

\* the content of the i-th message of a conversation whose contents have this
\* many characters: its number, a filling, and a last character "Z"
ContentOf(i, width) ==
    IF width = 0 THEN ""
    ELSE "m" \o ToString(i) \o Filled(width - Len("m" \o ToString(i)) - 1) \o "Z"

\* a conversation of n messages, sent by the user and the assistant in turn
HistoryOf(n, width) ==
    [i \in 1..n |-> [role |-> IF i % 2 = 1 THEN "user" ELSE "assistant",
                     content |-> ContentOf(i, width)]]

HistorySizes == {0, 1, 10, 11, 13}
ContentWidths == {0, 5, 100, 101, 130}

\* a UserMemory after some conversation and some edits
MarkdownInit ==
    /\ LoopIdle
    /\ \E n \in HistorySizes : \E width \in ContentWidths :
          /\ conversation_history = HistoryOf(n, width)
          /\ added = HistoryOf(n, width)
    /\ \E known \in BOOLEAN :
          /\ topics = IF known THEN <<CharsOf("art"), CharsOf("sea")>> ELSE << >>
          /\ learning_gaps = IF known THEN <<"article", "tense">> ELSE << >>
    /\ topic_calls = 0
    /\ last_op = [op |-> "none", arg |-> << >>, before |-> << >>]
    /\ mistake_count = << >>
    /\ mistake_calls = << >>
    /\ styles = DefaultStyles

\* memory.to_markdown(): the string returned and the memory it was called on
ToMarkdown ==
    /\ LET mem == Memory(learning_gaps, topics, styles, conversation_history,
                         mistake_count)
       IN last_op' = [op |-> "to_markdown", arg |-> <<to_markdown(mem)>>,
                      before |-> <<mem>>]
    /\ UNCHANGED <<conversation_history, topics, added, topic_calls, mistake_count,
                   learning_gaps, mistake_calls, styles, loopVars, auxVars>>

\* a UserMemory rendered between add_message calls
MarkdownSpec == MarkdownInit /\ [][AddMessage \/ ToMarkdown]_vars

----------------------------------------------------------------------------
(* DekompositTuiApp: submissions, mode toggles, pair swaps and the worker    *)
(* that asks the service. A worker is a coroutine built with the text, mode  *)
(* and pair of its submission; it is scheduled by run_worker, then awaits    *)
(* service.ask, and ends when that returns, raises or is cancelled.          *)

MaxSubmissions == 2

ChatMessage(role, text, kind, pair_label) ==
    [role |-> role, text |-> text, kind |-> kind, pair_label |-> pair_label]

\* LanguagePair.label
label(pair) == pair.source_lang \o "-" \o pair.target_lang

\* LanguagePair.swapped
swapped(pair) == LanguagePair(pair.target_lang, pair.source_lang)

\* DekompositTuiApp.__init__, mounted; calls are the calls service.ask has
\* received, last is the last submission and how the handler left
NewApp ==
    [pc |-> "mounted", mode |-> "normal", pair |-> LanguagePair("en", "ru"),
     pending |-> FALSE, status |-> "Ready.", transcript |-> << >>, workers |-> << >>,
     calls |-> << >>, submissions |-> 0, accepted |-> 0,
     last |-> [raw |-> "", outcome |-> "none"]]

\* what is typed into the input before enter
AppInputs == {"hello", "/ruuk hello", "/UKsk", "/dede hi"}

\* what service.ask gives to a worker
AskOutcomes ==
    { [kind |-> "returns", reply |-> ServiceReply("<translated>privet</translated>",
                                                 "translated")],
      [kind |-> "returns", reply |-> ServiceReply("", "plain")],
      [kind |-> "raises", reply |-> ServiceReply("", "")],
      [kind |-> "cancelled", reply |-> ServiceReply("", "")] }

\* a handler that leaves the pair as it was
pair_after_unchanged(a, parsed) == a.pair

\* handle_input_submitted: the pair after a command without an error
pair_after(a, parsed) == IF parsed.pair # None THEN parsed.pair[1] ELSE a.pair

\* a handler that starts a worker whether or not a reply is pending
accepts_always(a) == TRUE

\* handle_input_submitted: a text is sent unless a reply is pending
accepts(a) == ~a.pending

\* a worker that clears the flag only when service.ask has returned
pending_after_return(outcome) == outcome.kind # "returns"

\* the finally of _request_reply: _pending after the worker, however it ended
pending_after(outcome) == FALSE

\* run_worker(..., exclusive=True, group="chat"): the workers of the group are
\* cancelled and the new one is scheduled
run_worker(workers, request) ==
    [i \in 1..Len(workers) |-> [workers[i] EXCEPT !.cancelled = TRUE]]
        \o <<[text |-> request.text, mode |-> request.mode, pair |-> request.pair,
              state |-> "scheduled", cancelled |-> FALSE]>>

\* handle_input_submitted(raw_text): the app afterwards
handle_input_submitted(a, raw_text) ==
    LET parsed == parse_input(raw_text)
        seen == [a EXCEPT !.submissions = @ + 1]
    IN IF parsed.error # None
       THEN [seen EXCEPT
               !.transcript = Append(@, ChatMessage("assistant",
                                                    "Oops... " \o parsed.error[1],
                                                    "error", None)),
               !.status = "Command failed.",
               !.last = [raw |-> raw_text, outcome |-> "error"]]
       ELSE LET paired == [seen EXCEPT
                             !.pair = pair_after(a, parsed),
                             !.status = IF parsed.pair # None
                                        THEN "Language pair: "
                                                \o label(pair_after(a, parsed)) \o "."
                                        ELSE @]
            IN IF parsed.text = None
               THEN [paired EXCEPT !.last = [raw |-> raw_text, outcome |-> "no_text"]]
               ELSE IF ~accepts(a)
               THEN [paired EXCEPT
                       !.transcript =
                           Append(@, ChatMessage(
                                        "assistant",
                                        "Oops... still processing the previous message.",
                                        "error", None)),
                       !.status = "Busy.",
                       !.last = [raw |-> raw_text, outcome |-> "busy"]]
               ELSE [paired EXCEPT
                       !.transcript = Append(@, ChatMessage("user", parsed.text[1],
                                                            "plain", None)),
                       !.pending = TRUE,
                       !.status = "Thinking...",
                       !.workers = run_worker(@, [text |-> parsed.text[1],
                                                  mode |-> paired.mode,
                                                  pair |-> paired.pair]),
                       !.accepted = @ + 1,
                       !.last = [raw |-> raw_text, outcome |-> "sent"]]

\* _append_service_reply(reply, pair): the transcript afterwards
append_service_reply(transcript, reply, pair) ==
    IF reply.text = "" THEN transcript
    ELSE Append(transcript,
                ChatMessage("assistant", reply.text, reply.kind,
                            IF reply.kind = "translated" THEN Some(label(pair))
                            ELSE None))

\* a mounted app with nothing typed yet
AppInit ==
    /\ LoopStopped
    /\ registry = InitialRegistry
    /\ MemInit
    /\ RegistryReady
    /\ TurnIdle
    /\ FormatIdle
    /\ route = NoRoute
    /\ service = NoService
    /\ tui = NoTui
    /\ agents = NoAgents
    /\ app = NewApp

appFrame == <<loopVars, memVars, regVars, turnVars, fmtVars, route, service, tui, agents>>

\* enter is pressed on what was typed
Submit ==
    /\ app.submissions < MaxSubmissions
    /\ \E raw \in AppInputs : app' = handle_input_submitted(app, raw)
    /\ UNCHANGED appFrame

\* action_toggle_mode
ToggleMode ==
    /\ app.pc = "mounted"
    /\ LET mode == IF app.mode = "normal" THEN "translation" ELSE "normal"
       IN app' = [app EXCEPT !.mode = mode, !.status = "Mode set to " \o mode \o "."]
    /\ UNCHANGED appFrame

\* action_swap_pair
SwapPair ==
    /\ app.pc = "mounted"
    /\ app' = [app EXCEPT !.pair = swapped(@),
                          !.status = "Language pair: " \o label(swapped(app.pair)) \o "."]
    /\ UNCHANGED appFrame

\* the event loop runs a scheduled worker up to its await: service.ask is
\* called with the arguments the coroutine was built with
WorkerStarts ==
    /\ \E i \in 1..Len(app.workers) :
          /\ app.workers[i].state = "scheduled"
          /\ ~app.workers[i].cancelled
          /\ app' = [app EXCEPT
                       !.workers[i].state = "awaiting",
                       !.calls = Append(@, [text |-> app.workers[i].text,
                                            mode |-> app.workers[i].mode,
                                            pair |-> app.workers[i].pair])]
    /\ UNCHANGED appFrame

\* the await of _request_reply ends: the reply is appended, or the error
\* message when service.ask raised, or nothing when the worker was cancelled,
\* and the finally clears the flag
WorkerEnds ==
    /\ \E i \in 1..Len(app.workers) : \E outcome \in AskOutcomes :
          LET worker == app.workers[i]
              rest == SubSeq(app.workers, 1, i - 1)
                         \o SubSeq(app.workers, i + 1, Len(app.workers))
          IN /\ worker.state = "awaiting"
             /\ worker.cancelled => outcome.kind = "cancelled"
             /\ app' = [app EXCEPT
                          !.workers = rest,
                          !.pending = pending_after(outcome),
                          !.transcript =
                              CASE outcome.kind = "returns" ->
                                      append_service_reply(@, outcome.reply, worker.pair)
                                [] outcome.kind = "raises" ->
                                      Append(@, ChatMessage(
                                                   "assistant",
                                                   "Oops... something went wrong.",
                                                   "error", None))
                                [] OTHER -> @,
                          !.status = CASE outcome.kind = "returns" -> "Ready."
                                       [] outcome.kind = "raises" -> "Failed."
                                       [] OTHER -> @]
    /\ UNCHANGED appFrame

AppNext ==
    \/ Submit
    \/ ToggleMode
    \/ SwapPair
    \/ WorkerStarts
    \/ WorkerEnds

\* the app under any interleaving of keys and worker steps
AppSpec == AppInit /\ [][AppNext]_vars

\* the event loop runs every scheduled worker, and service.ask ends: each of
\* its requests has a timeout
FairAppSpec == AppSpec /\ WF_vars(WorkerStarts) /\ WF_vars(WorkerEnds)

----------------------------------------------------------------------------
(* add_mistake calls and memory tool calls on one UserMemory.                *)

\* the keyword arguments of the memory tool calls that edit the learning gaps
GapEdits ==
    { PyDict(<<Item("action", PyStr("add")), Item("learning_gap", PyStr(gap))>>) :
         gap \in {"tense", "slang"} }
      \cup { PyDict(<<Item("action", PyStr("remove")),
                      Item("remove_type", PyStr("learning_gap")),
                      Item("remove_item", PyStr(gap))>>) : gap \in {"tense", "idiom"} }
      \cup { PyDict(<<Item("action", PyStr("clear")),
                      Item("remove_type", PyStr("learning_gaps"))>>) }

\* a UserMemory that has counted every mistake type one time less than the
\* threshold, with a memory tool bound to its Agent
GapInit ==
    /\ LoopIdle
    /\ conversation_history = << >>
    /\ topics = << >>
    /\ added = << >>
    /\ topic_calls = 0
    /\ last_op = [op |-> "none", arg |-> << >>, before |-> << >>]
    /\ mistake_count = [t \in MistakeTypes |-> GapThreshold - 1]
    /\ learning_gaps = << >>
    /\ mistake_calls = << >>
    /\ styles = DefaultStyles

\* memory.add_mistake(mistake_type), a few times more
GapAddMistake ==
    /\ Len(mistake_calls) <= MaxCalls
    /\ \E mistake_type \in MistakeTypes :
          LET after == add_mistake(mistake_count, learning_gaps, mistake_type)
          IN /\ mistake_count' = after.mistake_count
             /\ learning_gaps' = after.learning_gaps
             /\ mistake_calls' = Append(mistake_calls, mistake_type)
    /\ last_op' = [op |-> "add_mistake", arg |-> << >>, before |-> <<learning_gaps>>]
    /\ UNCHANGED <<conversation_history, topics, added, topic_calls, styles, loopVars, auxVars>>

\* the bound memory tool is called with an add, a remove or a clear: the
\* memory is edited and the prompt rebuilt
GapMemoryTool ==
    /\ \E kwargs \in GapEdits :
          LET called == MemoryTool_call(BoundMemoryTool, kwargs,
                                        Memory(learning_gaps, topics, styles,
                                               conversation_history, mistake_count))
          IN /\ learning_gaps' = called.mem.learning_gaps
             /\ topics' = called.mem.topics
             /\ styles' = called.mem.styles
             /\ conversation_history' = called.mem.conversation_history
             /\ base_prompt' = IF called.rebuilt THEN build_base_prompt(called.mem)
                               ELSE base_prompt
             /\ last_op' = [op |-> DictGet(kwargs, "action").s, arg |-> <<kwargs>>,
                            before |-> <<learning_gaps>>]
    /\ UNCHANGED <<added, topic_calls, mistake_count, mistake_calls, loopVars, regVars,
                   turn_count, last_turn, fmtVars, appVars>>

\* add_mistake calls and memory tool calls in any order
GapSpec == GapInit /\ [][GapAddMistake \/ GapMemoryTool]_vars

----------------------------------------------------------------------------
(* Properties of the tool loop.                                              *)

Requested == Flatten(responses)

\* number of tool calls requested in the first j responses
CallsBefore(j) == Len(Flatten(SubSeq(responses, 1, j)))

\* the response (iteration, 1-based) that requested the k-th call
IterOf(k) == CHOOSE j \in 1..Len(responses) : CallsBefore(j - 1) < k /\ k <= CallsBefore(j)

\* names the registry of the run resolves: keys of _tools, keys of factories
\* and the declared names of the tools the factories build
Resolvable ==
    DOMAIN InitialRegistry.tools \cup FactoryKeys(InitialRegistry)
        \cup {ToolName(InitialRegistry.factories[i].cls) :
                 i \in 1..Len(InitialRegistry.factories)}

\* C1: when the first model response carries no tool calls (None or []), the
\* run has returned after exactly one model call, with type "response", the
\* model's text as message ("" when the text is None) and no tool calls.
C1_FirstResponseFinal ==
    (responses # << >> /\ NoToolCalls(responses[1])) =>
        /\ pc = "returned"
        /\ model_calls = 1
        /\ result = Some([type |-> "response",
                          message |-> IF IsNone(responses[1].content) THEN ""
                                      ELSE responses[1].content[1],
                          tool_calls |-> << >>])

C1_Witness ==
    /\ pc = "returned"
    /\ model_calls = 1
    /\ IsNone(responses[1].content)
    /\ IsNone(responses[1].tool_calls)
    /\ result[1].message = ""

\* the model has asked for exactly one tool call in every response so far
AlwaysOneCall == \A i \in 1..Len(responses) : Len(CallsOf(responses[i])) = 1

\* C2: with max_iterations = K >= 1 and a model that requests one tool call in
\* every response, the run makes exactly K model calls and returns type
\* "error" with the message "Maximum iterations reached" and K tool calls;
\* it never makes more than K model calls on the way.
C2_BudgetExhausted ==
    (max_iterations >= 1 /\ AlwaysOneCall) =>
        /\ model_calls <= max_iterations
        /\ pc = "returned" =>
              /\ model_calls = max_iterations
              /\ result[1].type = "error"
              /\ result[1].message = "Maximum iterations reached"
              /\ Len(result[1].tool_calls) = max_iterations

C2_Witness ==
    /\ pc = "returned"
    /\ max_iterations = 2
    /\ AlwaysOneCall
    /\ model_calls = 2
    /\ result[1].type = "error"
    /\ Len(result[1].tool_calls) = 2

\* what holds of a run at every moment, and of its outcome once it returned
C3_Safe ==
    /\ model_calls <= max_iterations
    /\ pc \in {"loop", "exec", "in_tool", "returned"}
    /\ pc = "returned" <=> ~IsNone(result)
    /\ pc = "returned" =>
          /\ result[1].type \in {"response", "error"}
          /\ result[1].type = "response" <=>
                (responses # << >> /\ NoToolCalls(responses[Len(responses)]))
          /\ result[1].type = "error" <=>
                (model_calls = max_iterations
                   /\ \A i \in 1..Len(responses) : ~NoToolCalls(responses[i]))

\* C3: whatever the model answers and whatever the tools do (succeed, are
\* not found, raise), a run whose Client calls and tool invocations all return
\* ends, after at most max_iterations model calls, in exactly one of two
\* outcomes: "response" (the last response asked for no tool) or "error" (the
\* budget is exhausted).
C3_Terminates == []C3_Safe /\ <>(pc = "returned")

C3_Witness ==
    /\ pc = "returned"
    /\ result[1].type = "response"
    /\ model_calls = 2
    /\ \E k \in 1..Len(tool_call_history) :
          tool_call_history[k].tool_name = "adaptive_translation"
    /\ \E k \in 1..Len(tool_call_history) :
          tool_call_history[k].tool_name = "missing_tool"

\* index in messages of the echo message of the j-th response
EchoAt(j) == 2 + (j - 1) + CallsBefore(j - 1) + 1

\* number of responses that requested tools
ToolResponses == Cardinality({j \in 1..Len(responses) : ~NoToolCalls(responses[j])})

\* C4: for every response that requests N >= 1 tool calls the message list
\* holds one assistant echo message followed at once by the tool messages of
\* the calls, in the order requested (all N once the iteration is over), the
\* k-th holding the result of the k-th call, and the list holds nothing else
\* after the system and user messages.
C4_EchoThenResults ==
    /\ Len(messages) = 2 + ToolResponses + Len(tool_call_history)
    /\ messages[1].role = "system" /\ messages[2].role = "user"
    /\ \A j \in 1..Len(responses) :
          LET calls == CallsOf(responses[j])
              done == Len(tool_call_history) - CallsBefore(j - 1)
          IN calls # << >> =>
               /\ messages[EchoAt(j)].role = "assistant"
               /\ Len(messages[EchoAt(j)].tool_calls[1]) = Len(calls)
               /\ (j < Len(responses) \/ pc \in {"loop", "returned"}) => done >= Len(calls)
               /\ \A k \in 1..Len(calls) :
                     k <= done =>
                        LET m == messages[EchoAt(j) + k]
                            rec == tool_call_history[CallsBefore(j - 1) + k]
                        IN /\ m.role = "tool"
                           /\ IsNone(m.tool_calls)
                           /\ m.tool_call_id = Some(call_id(calls[k]))
                           /\ rec.tool_name = calls[k].function.name
                           /\ m.content = JsonDumps(rec.result)
                           /\ messages[EchoAt(j)].tool_calls[1][k].function
                                 = calls[k].function

C4_Witness ==
    /\ pc = "loop"
    /\ Len(responses) = 1
    /\ Len(CallsOf(responses[1])) = 2
    /\ CallsOf(responses[1])[1] # CallsOf(responses[1])[2]
    /\ Len(messages) = 5
    /\ messages[3].role = "assistant"
    /\ messages[4].role = "tool" /\ messages[5].role = "tool"

\* C5: a call to a name the registry cannot resolve is recorded with the
\* result {"error": "Tool not found: <name>"}, the run is not aborted, and once
\* the run has returned it has either asked the model again after that call
\* or ended as budget exhausted.
C5_ToolNotFound ==
    \A k \in 1..Len(Requested) :
       Requested[k].function.name \notin Resolvable =>
          /\ k <= Len(tool_call_history) =>
                /\ tool_call_history[k].tool_name = Requested[k].function.name
                /\ tool_call_history[k].result =
                      PyDict(<<Item("error",
                                    PyStr("Tool not found: " \o Requested[k].function.name))>>)
          /\ pc = "returned" =>
                /\ k <= Len(result[1].tool_calls)
                /\ (model_calls > IterOf(k) \/ result[1].type = "error")

C5_Witness ==
    /\ pc = "returned"
    /\ result[1].type = "response"
    /\ result[1].message = "Hi there"
    /\ Len(result[1].tool_calls) = 1
    /\ result[1].tool_calls[1].tool_name = "missing_tool"
    /\ result[1].tool_calls[1].result =
          PyDict(<<Item("error", PyStr("Tool not found: missing_tool"))>>)


\* the tool instance a resolvable name stands for
ToolFor(name) == RegistryGet(InitialRegistry, name).tool[1]

\* C6: every tool whose body raises during a tool loop is recorded with the
\* result {"error": "Tool execution failed", "details": str(exception)}, in
\* ToolLoopRunner.run and in the loop Agent.handle_message runs alike.
C6_ToolFailureNormalized ==
    \A k \in 1..Len(tool_call_history) :
       LET rec == tool_call_history[k]
       IN (rec.tool_name \in Resolvable /\ isinstance_dict(rec.arguments)
              /\ CallTool(ToolFor(rec.tool_name), rec.arguments).raised) =>
             rec.result =
                PyDict(<<Item("error", PyStr("Tool execution failed")),
                         Item("details",
                              PyStr(CallTool(ToolFor(rec.tool_name), rec.arguments).exc))>>)

\* C7: the arguments of every recorded call are a mapping: the parsed JSON
\* object when the arguments string is a JSON object, the empty mapping when
\* it is broken JSON or JSON that is no object.
C7_ArgumentsAreMapping ==
    \A k \in 1..Len(tool_call_history) :
       LET rec == tool_call_history[k]
           parsed == JsonLoads(Requested[k].function.arguments)
       IN /\ isinstance_dict(rec.arguments)
          /\ rec.arguments = IF parsed.ok /\ parsed.value.py = "dict"
                             THEN parsed.value ELSE PyDict(<< >>)

\* the result a requested call yields when it is executed
ResultOfCall(var, call) ==
    IF call.function.name \notin Resolvable
    THEN tool_not_found(call.function.name)
    ELSE ResultOf(var, InvokeTool(ToolFor(call.function.name),
                                  ParseArguments(var, call.function.arguments)))

\* C8: the tool call history holds one record per requested call, in the
\* order the model requested them over all iterations, each with the
\* requested name, the parsed arguments and the call's result; it is what the
\* run returns as tool_calls in both outcomes; and calls run one at a time:
\* while a call is awaited, exactly the calls before it are recorded and no
\* other is in flight.
C8_RecordsInRequestOrder ==
    /\ Len(tool_call_history) <= Len(Requested)
    /\ \A k \in 1..Len(tool_call_history) :
          /\ tool_call_history[k].tool_name = Requested[k].function.name
          /\ tool_call_history[k].arguments =
                ParseArguments(variant, Requested[k].function.arguments)
          /\ tool_call_history[k].result = ResultOfCall(variant, Requested[k])
    /\ pc \in {"loop", "returned"} => Len(tool_call_history) = Len(Requested)
    /\ pc = "returned" => result[1].tool_calls = tool_call_history
    /\ started - finished \in {0, 1}
    /\ started - finished = 1 <=> pc = "in_tool"
    /\ pc \in {"exec", "in_tool"} =>
          Len(tool_call_history) = CallsBefore(Len(responses) - 1) + tc_index - 1

C8_Witness ==
    /\ pc = "returned"
    /\ result[1].type = "error"
    /\ model_calls = 2
    /\ Len(result[1].tool_calls) = 2
    /\ result[1].tool_calls[1].tool_name = "echo_tool"
    /\ result[1].tool_calls[1].result = PyDict(<<Item("echo", PyStr("ping"))>>)
    /\ result[1].tool_calls[2].tool_name = "missing_tool"
    /\ finished = 1

----------------------------------------------------------------------------
(* Properties of UserMemory.                                                 *)

\* C9: after every add_message the history holds at most 50 entries and is
\* exactly the last min(n, 50) of the n messages added, oldest first.
C9_HistoryIsLast50 ==
    LET n == Len(added)
        kept == IF n < 50 THEN n ELSE 50
    IN /\ Len(conversation_history) = kept
       /\ \A i \in 1..kept : conversation_history[i] = added[n - kept + i]

C9_Witness ==
    /\ Len(added) = 60
    /\ Len(conversation_history) = 50
    /\ conversation_history[1].content = "m10"
    /\ conversation_history[50].content = "m59"

\* trimmed and case-folded
Folded(str) == strip(lower(str))

\* C10: no two stored topics are equal once trimmed and case-folded, no stored
\* topic is empty after trimming, and an add_topic call whose trimmed,
\* case-folded text matches a stored topic leaves the list unchanged.
C10_TopicsDeduplicated ==
    /\ \A i, j \in 1..Len(topics) : i # j => Folded(topics[i]) # Folded(topics[j])
    /\ \A i \in 1..Len(topics) : strip(topics[i]) # << >>
    /\ (last_op.op = "add_topic"
          /\ \E i \in 1..Len(last_op.before) :
                Folded(last_op.before[i]) = Folded(last_op.arg)) =>
             topics = last_op.before

\* number of add_mistake calls made so far with the type t
TimesAdded(t) == Cardinality({i \in 1..Len(mistake_calls) : mistake_calls[i] = t})

\* C11: after any sequence of add_mistake calls the counter of every type is
\* the number of calls made with it (each call adds exactly one), a type is
\* among the learning gaps exactly when its counter is at least 5, and no
\* type is listed twice.
C11_GapsAtThreshold ==
    /\ DOMAIN mistake_count = {t \in MistakeTypes : TimesAdded(t) > 0}
    /\ \A t \in DOMAIN mistake_count : mistake_count[t] = TimesAdded(t)
    /\ \A t \in MistakeTypes : t \in Elems(learning_gaps) <=> TimesAdded(t) >= 5
    /\ \A i, j \in 1..Len(learning_gaps) : i # j => learning_gaps[i] # learning_gaps[j]

C11_Witness ==
    /\ mistake_count = [t \in {"grammar", "tense"} |-> IF t = "grammar" THEN 7 ELSE 4]
    /\ learning_gaps = <<"grammar">>

----------------------------------------------------------------------------
(* Properties of the ToolRegistry.                                           *)

\* C12: a registry built with auto-discovery is constructed, its schema list
\* has no entry named "reverso_api" (the disabled tool), and has and get still
\* resolve "reverso_api".
C12_DisabledToolNotOffered ==
    (auto_discover /\ reg_pc # "discovering") =>
        /\ reg_pc = "ready"
        /\ "reverso_api" \notin Elems(get_tool_schemas(registry).schemas)
        /\ has(registry, "reverso_api")
        /\ ~IsNone(RegistryGet(registry, "reverso_api").tool)

\* the declared names of the tools the factories of the registry build
DeclaredNames == {ToolName(registry.factories[i].cls) : i \in 1..Len(registry.factories)}

\* C13: right after a get or has call, for every factory of the registry: a
\* lookup by its key or by the declared name of its tool has found a tool, and
\* get has returned a tool with that declared name; a lookup of a string that
\* is no key, no declared name and no registered tool's name has found
\* nothing (get None, has False).
C13_FactoryToolsResolve ==
    lookup.op \in {"get", "has"} =>
        /\ \A i \in 1..Len(registry.factories) :
              LET f == registry.factories[i]
              IN lookup.name \in {f.key, ToolName(f.cls)} =>
                    /\ lookup.found
                    /\ lookup.op = "get" => lookup.tool[1].name = ToolName(f.cls)
        /\ lookup.name \notin FactoryKeys(registry) \cup DeclaredNames
                                \cup DOMAIN registry.tools =>
              /\ ~lookup.found
              /\ IsNone(lookup.tool)

C13_Witness ==
    /\ lookup.op = "get"
    /\ lookup.name = "dummy_tool"
    /\ lookup.tool = Some(NewTool("DummyTool"))
    /\ FactoryKeys(registry) = {"dummyfactory", "echotool"}
    /\ DOMAIN registry.tools = {"dummyfactory", "echotool"}

----------------------------------------------------------------------------
(* Properties of a conversation.                                             *)

\* C14: a chat call during which the Client raised has returned the fixed
\* apology string; no exception has left chat.
C14_ChatNeverRaises ==
    last_turn.outcome = "raised" =>
        last_turn.reply = Some("Sorry, I couldn't process that.")

\* the last handle_message call has returned a result of type "response"
ReturnedResponse ==
    /\ last_turn.outcome = "returned"
    /\ last_turn.result[1].type = "response"

\* C15 as stated: after a handle_message call that returned a result of type
\* "response" the history is two entries longer than before the call, a user
\* entry with the input text followed by an assistant entry with the result
\* message.
C15_GainsTwoEntries ==
    ReturnedResponse =>
        LET n == Len(conversation_history)
        IN /\ n = Len(last_turn.before) + 2
           /\ conversation_history[n - 1] = [role |-> "user", content |-> last_turn.text]
           /\ conversation_history[n] =
                 [role |-> "assistant", content |-> last_turn.result[1].message]

\* C15 amended: after a handle_message call that returned a result of type
\* "response", the history is the history before the call followed by the
\* user entry with the input text and, when the result message is not empty,
\* the assistant entry with that message, cut to its last 50 entries; an
\* empty message adds the user entry alone.
C15_HistoryGainsTurn ==
    ReturnedResponse =>
        LET message == last_turn.result[1].message
            gained == <<[role |-> "user", content |-> last_turn.text]>>
                         \o (IF message # ""
                             THEN <<[role |-> "assistant", content |-> message]>>
                             ELSE << >>)
        IN conversation_history = LastN(last_turn.before \o gained, 50)

C15_Witness ==
    /\ ReturnedResponse
    /\ last_turn.result[1].message = "Hi there"
    /\ Len(last_turn.result[1].tool_calls) = 1
    /\ Len(last_turn.before) = 49
    /\ Len(conversation_history) = 50
    /\ conversation_history[1].content = "m1"
    /\ conversation_history[49] = [role |-> "user", content |-> "use tool"]
    /\ conversation_history[50] = [role |-> "assistant", content |-> "Hi there"]

----------------------------------------------------------------------------
(* Properties of the FormatRegistry.                                         *)

\* the last call is a render whose preset name is None, empty or not loaded
RenderFellBack ==
    /\ fmt_call.op = "render"
    /\ \/ IsNone(fmt_call.name)
       \/ fmt_call.name[1] = ""
       \/ fmt_call.name[1] \notin DOMAIN presets

\* every field of the template has a keyword among the values
Covers(template, kwargs) ==
    \A i \in 1..Len(template) : template[i].field => template[i].text \in DOMAIN kwargs

\* C16: a render call whose preset name is None, empty or not a loaded preset
\* renders the active preset when that preset is loaded: it never raises
\* ValueError for the name, and with values for every field of the active
\* template it returns open_tag + filled template + close_tag of the active
\* preset.
C16_RenderFallsBackToActive ==
    (RenderFellBack /\ active \in DOMAIN presets) =>
        LET preset == presets[active]
        IN /\ fmt_call.exc # "ValueError"
           /\ fmt_call.raised <=> ~Covers(preset.template, fmt_call.values)
           /\ ~fmt_call.raised =>
                 fmt_call.text = preset.open_tag
                                    \o str_format(preset.template, fmt_call.values).text
                                    \o preset.close_tag

C16_Witness ==
    /\ RenderFellBack
    /\ fmt_call.name = Some("missing")
    /\ active = "translation_default"
    /\ active \in DOMAIN presets
    /\ fmt_call.values = [source |-> "EN", target |-> "RU", translation |-> "Privet"]
    /\ ~fmt_call.raised
    /\ fmt_call.text = "<translation>[EN → RU] Privet</translation>"

\* C17: when the active preset name is not among the loaded presets,
\* get_active raises ValueError and so does every render call whose preset
\* name is None, empty or not loaded.
C17_MissingActiveRaises ==
    active \notin DOMAIN presets =>
        /\ fmt_call.op = "get_active" =>
              fmt_call.raised /\ fmt_call.exc = "ValueError"
        /\ RenderFellBack => fmt_call.raised /\ fmt_call.exc = "ValueError"

C17_Witness ==
    /\ active = "missing_active"
    /\ DOMAIN presets = {"existing"}
    /\ fmt_call.op = "render"
    /\ IsNone(fmt_call.name)
    /\ fmt_call.values = [translation |-> "Ahoj"]
    /\ fmt_call.raised
    /\ fmt_call.exc = "ValueError"

----------------------------------------------------------------------------
(* Properties of the routing layer.                                          *)

\* the routing request of the last stream_chat call has returned
Routed == route.pc \in {"decided", "done"} \/ (route.pc = "raised" /\ route.decision # None)

----------------------------------------------------------------------------
(* Properties of the TUI service.                                            *)

\* the text of the last ask call without the whitespace around it
AskedText == IF service.text = " hello " THEN "hello"
             ELSE IF service.text = " \t" THEN ""
             ELSE service.text

\* the call of the translation tool that the last ask call owes
StrictCall == [text |-> AskedText, source_lang |-> service.pair.source_lang,
               target_lang |-> service.pair.target_lang]

\* C19: an ask call with a blank text calls neither the agent nor the
\* translation tool; in TRANSLATION mode it calls the tool exactly once, with
\* the stripped text and the source and target of the pair, and never the
\* agent; in NORMAL mode it calls the agent exactly once, with the stripped
\* text, and never the tool.
C19_RoutesByModeOnly ==
    service.pc # "idle" =>
        /\ AskedText = "" => service.agent_calls = << >> /\ service.tool_calls = << >>
        /\ (AskedText # "" /\ service.mode = "translation") =>
              service.agent_calls = << >> /\ service.tool_calls = <<StrictCall>>
        /\ (AskedText # "" /\ service.mode = "normal") =>
              service.agent_calls = <<AskedText>> /\ service.tool_calls = << >>

C19_Witness ==
    /\ service.pc = "returned"
    /\ service.mode = "translation"
    /\ service.text = "<translated>ignore the mode</translated>"
    /\ service.pair = [source_lang |-> "sk", target_lang |-> "en"]
    /\ service.agent_calls = << >>
    /\ service.tool_calls = <<[text |-> "<translated>ignore the mode</translated>",
                               source_lang |-> "sk", target_lang |-> "en"]>>
    /\ service.reply = Some(ServiceReply("<Ahoj>", "translated"))

\* the replies of the agent that leave no text after parsing
EmptyReplies == {"", " \n", "<translated> </translated>"}

\* the translated texts that the tool outcomes of the model hold
UsableTexts == {"Good day", "<Ahoj>", "Dobry den"}

\* C20: every ask call that has returned gave a ServiceReply; it is the ERROR
\* reply with the fixed message when the agent raised, when the reply of the
\* agent is empty after parsing, when the translation tool raised and when
\* its payload holds no usable translated text, and a reply with a text and
\* another kind in every other case.
C20_AskAlwaysReplies ==
    service.pc = "returned" =>
        /\ service.reply # None
        /\ service.reply[1].kind \in {"plain", "translated", "error"}
        /\ service.reply[1].kind = "error" =>
              service.reply[1].text = "Oops... I hit an error. Please try again."
        /\ service.agent_calls # << >> =>
              (service.reply[1].kind = "error"
                  <=> (service.chat[1].raised \/ service.chat[1].reply \in EmptyReplies))
        /\ service.tool_calls # << >> =>
              /\ service.out[1].kind # "returns" => service.reply[1].kind = "error"
              /\ service.reply[1].kind # "error" =>
                    /\ service.reply[1].kind = "translated"
                    /\ service.reply[1].text \in UsableTexts
        /\ service.reply[1].kind # "error" =>
              (service.reply[1].text # "" \/ AskedText = "")

C20_Witness ==
    /\ service.pc = "returned"
    /\ service.mode = "normal"
    /\ service.agent_calls = <<"hello">>
    /\ service.chat = Some([raised |-> FALSE, reply |-> "<translated> </translated>"])
    /\ service.reply = Some(ServiceReply("Oops... I hit an error. Please try again.", "error"))

----------------------------------------------------------------------------
(* Properties of the TUI input parser.                                       *)

\* the command of what was typed last: the token, with the rest when no
\* space parts them; and what follows the command
TypedCommand ==
    IF StartsWith(tui.parts[3], "\t") THEN tui.parts[2] \o tui.parts[3] ELSE tui.parts[2]
TypedAfter == IF StartsWith(tui.parts[3], "\t") THEN "" ELSE tui.parts[3]

\* the command without its slash, in lower case, and its two halves
TypedName == str_lower(SubSeq(TypedCommand, 2, Len(TypedCommand)))
FirstHalf == SubSeq(TypedName, 1, 2)
SecondHalf == SubSeq(TypedName, 3, 4)

IsPairCommand ==
    /\ Len(TypedName) = 4
    /\ FirstHalf \in {"en", "ru", "uk", "sk"}
    /\ SecondHalf \in {"en", "ru", "uk", "sk"}
    /\ FirstHalf # SecondHalf

\* C21: parse_input gives one of five outcomes. Blank input: no text, no
\* pair, no error. Input that does not start with "/": the stripped text, no
\* pair. A command of two different supported codes in any case: that pair
\* and the trimmed remainder, None when empty. Any other command of four
\* letters: the error "cannot be the same" for equal halves, "Unsupported
\* language pair" otherwise. Any other command: the error "Unknown command".
\* An error comes with no text and no pair, and a pair has two different
\* supported languages.
C21_ParseInputOutcomes ==
    tui.parsed # None =>
        LET parsed == tui.parsed[1]
            typed == tui.parts[2] \o tui.parts[3]
        IN /\ str_strip(typed) = "" => parsed = ParsedInput(None, None, None)
           /\ (str_strip(typed) # "" /\ ~StartsWith(str_strip(typed), "/")) =>
                 parsed = ParsedInput(Some(str_strip(tui.raw)), None, None)
           /\ (StartsWith(TypedCommand, "/") /\ IsPairCommand) =>
                 /\ parsed.pair = Some([source_lang |-> FirstHalf,
                                        target_lang |-> SecondHalf])
                 /\ parsed.text = (IF TypedAfter \in {"", " "} THEN None
                                   ELSE Some("how to do it"))
                 /\ parsed.error = None
           /\ (StartsWith(TypedCommand, "/") /\ ~IsPairCommand) =>
                 /\ parsed.text = None /\ parsed.pair = None /\ parsed.error # None
                 /\ IF Len(TypedName) = 4 /\ isalpha(TypedName)
                    THEN IF FirstHalf = SecondHalf
                         THEN str_contains(parsed.error[1], "cannot be the same")
                         ELSE str_contains(parsed.error[1], "Unsupported language pair")
                    ELSE str_contains(parsed.error[1], "Unknown command")
           /\ parsed.error # None => parsed.text = None /\ parsed.pair = None
           /\ parsed.pair # None =>
                 /\ parsed.pair[1].source_lang \in {"en", "ru", "uk", "sk"}
                 /\ parsed.pair[1].target_lang \in {"en", "ru", "uk", "sk"}
                 /\ parsed.pair[1].source_lang # parsed.pair[1].target_lang

C21_Witness ==
    /\ tui.raw = " \t/RUen  how to do it "
    /\ tui.parsed = Some(ParsedInput(Some("how to do it"),
                                     Some([source_lang |-> "ru", target_lang |-> "en"]),
                                     None))

----------------------------------------------------------------------------
(* Properties of the messages the tool loop builds.                          *)

\* the positions of the tool-role messages, and of the echo message that
\* most recently precedes position j (0 when there is none)
ToolMessagePositions == {j \in 1..Len(messages) : messages[j].role = "tool"}
EchoBefore(j) ==
    LET echoes == {k \in 1..(j - 1) : /\ messages[k].role = "assistant"
                                      /\ messages[k].tool_calls # None}
    IN IF echoes = {} THEN 0 ELSE CHOOSE k \in echoes : \A m \in echoes : m <= k

\* the call of the model that the tool message at position j answers: tool
\* messages answer the requested calls in the order they were requested
RequestedCall(j) ==
    Flatten(responses)[Cardinality({m \in ToolMessagePositions : m <= j})]

\* C22: every tool-role message follows an echo message, and its
\* tool_call_id is the id of the call at the same offset in that echo; the
\* id is the one the model supplied, or the function name when it supplied
\* none, in the echo and in the tool message alike.
C22_ToolCallIdMatchesEcho ==
    \A j \in ToolMessagePositions :
        LET k == EchoBefore(j)
            requested == RequestedCall(j)
            expected == IF requested.id # "" THEN requested.id
                        ELSE requested.function.name
        IN /\ k > 0
           /\ j - k <= Len(messages[k].tool_calls[1])
           /\ messages[j].tool_call_id = Some(messages[k].tool_calls[1][j - k].id)
           /\ messages[k].tool_calls[1][j - k].id = expected
           /\ messages[k].tool_calls[1][j - k].function = requested.function

\* a second call of one echo was answered, and the model gave it no id
C22_Witness ==
    \E j \in ToolMessagePositions :
        /\ j - EchoBefore(j) = 2
        /\ RequestedCall(j).id = ""
        /\ messages[j].tool_call_id = Some(RequestedCall(j).function.name)

----------------------------------------------------------------------------
(* Properties of the records of the tool loop.                               *)

\* what the tool of the i-th record returned or raised
RawOutcome(i) ==
    LET call == Flatten(responses)[i]
        got == RegistryGet(registry, call.function.name)
    IN InvokeTool(got.tool[1], tool_call_history[i].arguments)

\* the i-th record is of a tool that was found and returned
ToolReturned(i) ==
    /\ ~IsNone(RegistryGet(registry, Flatten(responses)[i].function.name).tool)
    /\ ~RawOutcome(i).raised

\* C23: the result of every ToolCallRecord is a mapping: the return value of
\* the tool when that is a mapping, and {"result": v} for any other return
\* value v.
C23_ResultIsMapping ==
    \A i \in 1..Len(tool_call_history) :
        /\ isinstance_dict(tool_call_history[i].result)
        /\ ToolReturned(i) =>
              LET v == RawOutcome(i).value
              IN tool_call_history[i].result =
                    (IF isinstance_dict(v) THEN v
                     ELSE PyDict(<<Item("result", v)>>))

----------------------------------------------------------------------------
(* Properties of the system prompt and of the memory tool.                   *)

MemoryNow == Memory(learning_gaps, topics, styles, conversation_history, mistake_count)

\* the prompt shows the learning gaps, topics and styles the memory holds now,
\* whatever part of the conversation it was built with
ShowsEdits(prompt) ==
    \E k \in 0..Len(added) :
        prompt = build_base_prompt([MemoryNow EXCEPT
                                       !.conversation_history = SubSeq(added, 1, k)])

\* the tool calls of this run have changed what the memory held when the turn
\* began
ToolChangedMemory == <<learning_gaps, topics, styles>> # last_turn.known

\* a further request of the run is about to be sent
NextRequestDue ==
    pc = "loop" /\ iteration >= 1 /\ range_has_next(iteration, max_iterations)

\* C24: when the tool calls of a pass of the loop have changed the Memory, the
\* system prompt of the message list sent in the next pass shows the changed
\* Memory.
C24_NextPromptShowsEdit ==
    (NextRequestDue /\ ToolChangedMemory) => ShowsEdits(messages[1].content)

\* the first request of a turn is about to be sent: handle_message has
\* recorded the user message and execute_tools has built its message list
FirstRequestDue ==
    /\ turn_count >= 1
    /\ pc = "loop"
    /\ iteration = 0
    /\ model_calls = 0
    /\ range_has_next(iteration, max_iterations)

\* C25: in every turn, the system prompt sent to the model is the composition
\* of the Memory as it is when the tool loop of the turn starts: with the user
\* message of this turn and with every change of earlier turns, however those
\* turns ended.
C25_PromptIsCurrentMemory ==
    FirstRequestDue => messages[1].content = build_base_prompt(MemoryNow)

\* the record of the tool call that returned last in this run
LastRecord == tool_call_history[Len(tool_call_history)]

\* the memory holds what the arguments of an add or set call ask for
HoldsEdit(arguments) ==
    LET action == PyGet(arguments, "action", PyNone)
        learning_gap == PyGet(arguments, "learning_gap", PyNone)
        topic == PyGet(arguments, "topic", PyNone)
        tone_vibe == PyGet(arguments, "tone_vibe", PyNone)
    IN /\ (action = PyStr("add") /\ PyTruthy(learning_gap)) =>
              learning_gap.s \in Elems(learning_gaps)
       /\ (action = PyStr("add") /\ PyTruthy(topic)) =>
              CharsOf(topic.s) \in Elems(topics)
       /\ (action = PyStr("set") /\ PyTruthy(tone_vibe)) =>
              styles.tone_vibe = tone_vibe.s

\* C26: when a call of the memory tool with an add or set action has returned
\* in the tool loop of an Agent, the Memory of that Agent holds the requested
\* edit, and the memory tool the registry resolves refers to that Agent.
C26_MemoryToolEditsOwnAgent ==
    (tool_call_history # << >> /\ LastRecord.tool_name = "memory"
        /\ PyGet(LastRecord.arguments, "action", PyNone) \in {PyStr("add"), PyStr("set")})
    => /\ HoldsEdit(LastRecord.arguments)
       /\ RegistryGet(registry, "memory").tool = Some(BoundMemoryTool)

----------------------------------------------------------------------------
(* Properties of the tool instances of the ToolRegistry.                     *)

\* C27: a get call that follows a get call of the same name, with nothing
\* between them but state being set on the tool returned, returns the same
\* tool, with that state.
C27_GetReturnsSameInstance ==
    [][(/\ lookup.op \in {"get", "set_agent"}
        /\ lookup.found
        /\ lookup'.op = "get"
        /\ lookup'.name = lookup.name) => lookup'.tool = lookup.tool]_vars

\* C28: a constructed registry holds at most one tool of each declared name,
\* and get_tool_schemas returns at most one schema of each function name.
C28_OneToolPerName ==
    reg_pc = "ready" =>
        /\ \A k1, k2 \in DOMAIN registry.tools :
              registry.tools[k1].name = registry.tools[k2].name => k1 = k2
        /\ LET schemas == get_tool_schemas(registry).schemas
           IN \A i, j \in 1..Len(schemas) : schemas[i] = schemas[j] => i = j

\* C29: the construction of a registry with auto-discovery never raises, and
\* once it is over the registry is constructed and serves the tools of the
\* modules that did import (the memory tool, whose module always imports):
\* has and get find it, list_tools lists its key and get_tool_schemas has its
\* schema.
C29_DiscoverySkipsFailingTool ==
    auto_discover =>
        /\ reg_pc # "raised"
        /\ disc_queue = << >> =>
              /\ reg_pc = "ready"
              /\ has(registry, "memory")
              /\ ~IsNone(RegistryGet(registry, "memory").tool)
              /\ "memorytool" \in Elems(list_tools(registry))
              /\ "memory" \in Elems(get_tool_schemas(registry).schemas)

----------------------------------------------------------------------------
(* Properties of what Agent.chat gives back.                                 *)

\* C30: when the tool loop of a turn has ended with a result of type "error",
\* chat returns the message of that result or the fixed phrase, not the dump
\* of the result with its tool calls.
C30_ErrorResultIsRendered ==
    (last_turn.outcome = "returned" /\ last_turn.result[1].type = "error") =>
        last_turn.reply \in {Some(last_turn.result[1].message),
                             Some("Sorry, I couldn't process that.")}

----------------------------------------------------------------------------
(* Properties of a turn in which the Client raises.                          *)

\* C31: when the Client has raised during the tool loop of a turn, the loop
\* and handle_message are left without a result and without a reply, no tool
\* is running or runs afterwards (every invocation started was over before),
\* and the history of the Memory is the history before the turn with the user
\* entry of the turn and no assistant entry for it.
C31_ClientFailurePropagates ==
    last_turn.outcome = "raised" =>
        /\ pc = "idle"
        /\ result = None
        /\ last_turn.result = None
        /\ last_turn.reply = None
        /\ pending = None
        /\ started = finished
        /\ Len(tool_call_history) = Len(Flatten(responses))
        /\ conversation_history =
              add_message(last_turn.before, "user", last_turn.text)

\* the Client raised on the second request of the second turn, after a tool
\* had been executed
C31_Witness ==
    /\ last_turn.outcome = "raised"
    /\ turn_count = 2
    /\ model_calls = 2
    /\ Len(tool_call_history) = 1
    /\ conversation_history[Len(conversation_history)] =
          [role |-> "user", content |-> last_turn.text]

----------------------------------------------------------------------------
(* Properties of _handle_translation.                                        *)

\* the last stream_chat call has gone through _handle_translation
Handled == route.branches = <<"translation">>

\* a language code that _handle_translation takes as not given
Absent(lang) == IsNone(lang) \/ lang[1] \notin ValidLangs

\* the detection request was made and gave no code of the set
DetectionFailed ==
    /\ ~IsNone(route.det)
    /\ \/ route.det[1].raised
       \/ IsNone(route.det[1].parsed)
       \/ route.det[1].parsed[1] \notin ValidLangs

\* C32: in _handle_translation a source or target code outside
\* {en, ru, uk, sk} counts as absent; the detection request is made exactly
\* when the source is absent; when the source is still unresolved after
\* detection (the request raised, gave nothing or gave a code outside the
\* set) or the target is absent, the function returns None, the translation
\* tool is not called and nothing is raised; a call of the tool carries the
\* given source when it is in the set and the detected one otherwise.
C32_UnresolvedLanguagesGiveNone ==
    Handled =>
        LET decision == route.decision[1]
            no_source == Absent(decision.source_lang)
            no_target == Absent(decision.target_lang)
        IN /\ route.detections = (IF no_source THEN 1 ELSE 0)
           /\ IsNone(route.det) <=> ~no_source
           /\ (no_source /\ DetectionFailed) \/ no_target =>
                 /\ route.tool_calls = << >>
                 /\ route.result = None
                 /\ route.pc = "done"
                 /\ route.exc = ""
           /\ \A i \in 1..Len(route.tool_calls) :
                 /\ route.tool_calls[i].target_lang = decision.target_lang[1]
                 /\ route.tool_calls[i].target_lang \in ValidLangs
                 /\ route.tool_calls[i].source_lang \in ValidLangs
                 /\ route.tool_calls[i].source_lang =
                       (IF no_source THEN route.det[1].parsed[1]
                        ELSE decision.source_lang[1])

C32_Witness ==
    /\ Handled
    /\ route.pc = "done"
    /\ route.decision[1].source_lang = Some("de")
    /\ route.decision[1].target_lang = Some("en")
    /\ route.detections = 1
    /\ route.det = Some([raised |-> FALSE, parsed |-> Some("other")])
    /\ route.tool_calls = << >>
    /\ route.result = None
    /\ route.chunks = <<"Sorry, I couldn't process that.">>

----------------------------------------------------------------------------
(* Properties of two Agents in one process.                                  *)

\* what an Agent holds for itself: its Memory, the contents of its registry
\* with the tool instances cached there, and its system prompt
OwnState(ag, a) ==
    [memory |-> MemoryOf(ag, a), registry |-> RegistryOf(ag, a),
     base_prompt |-> ag.refs[a].base_prompt]

\* C33: with two Agents in one process, no step of one of them
\* (handle_message, a request, a tool execution, a registry register, clear
\* or get, a memory edit, a prompt rebuild) changes the Memory, the registry
\* contents, the cached tool instances or the system prompt of the other,
\* however their steps interleave; the two hold different objects.
C33_AgentsAreIsolated ==
    [][ /\ \A b \in AgentIds :
             b # agents'.actor => OwnState(agents', b) = OwnState(agents, b)
        /\ agents'.refs[1].memory # agents'.refs[2].memory
        /\ agents'.refs[1].registry # agents'.refs[2].registry ]_vars

C33_Witness ==
    /\ agents.actor = 1
    /\ agents.op = "tool"
    /\ agents.refs[2].pc = "tool"
    /\ MemoryOf(agents, 1).topics = <<CharsOf("art")>>
    /\ MemoryOf(agents, 2).topics = << >>
    /\ Len(MemoryOf(agents, 2).conversation_history) = 1
    /\ DOMAIN RegistryOf(agents, 1).tools = {"memory"}
    /\ DOMAIN RegistryOf(agents, 2).tools = {}
    /\ Places(agents.heap, "AsyncOpenAI") = {5}
    /\ agents.heap[5].val.requests = 2

----------------------------------------------------------------------------
(* Properties of UserMemory.to_markdown.                                     *)

\* the string the last to_markdown call returned
Rendered == last_op.arg[1]

\* the number of lines of a text that begin with "- "
ItemLines(text) ==
    Cardinality({i \in 1..Len(text) - 2 : SubSeq(text, i, i + 2) = "\n- "})

\* the line of the history section for an entry
HistoryLine(msg) ==
    "\n- " \o msg.role \o ": "
        \o SubSeq(msg.content, 1,
                  IF Len(msg.content) < ShownWidth THEN Len(msg.content) ELSE ShownWidth)
        \o "...\n"

\* C34: to_markdown changes no field of the memory; the string it returns is
\* determined by the state of the memory; its history section has one line
\* for each of the last 10 entries and none for an older one, and a line
\* shows at most the first 100 characters of the content, so the last
\* character of a longer content is never shown.
C34_MarkdownIsPure ==
    last_op.op = "to_markdown" =>
        LET shown == LastN(conversation_history, ShownEntries)
        IN /\ last_op.before = <<MemoryNow>>
           /\ Rendered = to_markdown(MemoryNow)
           /\ ItemLines(Rendered) = Len(shown)
           /\ Len(shown) <= ShownEntries
           /\ \A i \in 1..Len(shown) :
                 /\ str_contains(Rendered, HistoryLine(shown[i]))
                 /\ Len(shown[i].content) > ShownWidth =>
                       ~str_contains(Rendered, shown[i].content)
           /\ (\A i \in 1..Len(shown) :
                  shown[i].content # "" /\ EndsWith(shown[i].content, "Z")
                     => Len(shown[i].content) > ShownWidth)
                 => ~str_contains(Rendered, "Z")
           /\ \A i \in 1..Len(conversation_history) - Len(shown) :
                 conversation_history[i].content # "" =>
                    ~str_contains(Rendered, HistoryLine(conversation_history[i]))

C34_Witness ==
    /\ last_op.op = "to_markdown"
    /\ Len(conversation_history) = 14
    /\ Len(conversation_history[1].content) = 130
    /\ Len(conversation_history[14].content) = 3
    /\ learning_gaps = <<"article", "tense">>
    /\ ItemLines(Rendered) = 10

----------------------------------------------------------------------------
(* Properties of the assistant echo message.                                 *)

\* the positions of the echo messages, and the response the one at position k
\* echoes: the responses of a run before its last all request tools
EchoPositions ==
    {k \in 1..Len(messages) : messages[k].role = "assistant" /\ messages[k].tool_calls # None}
EchoedResponse(k) == responses[Cardinality({m \in EchoPositions : m <= k})]

\* C35: every assistant echo message of the tool loop has a content that is
\* not empty: the content of the model when that is not empty, and the
\* placeholder "[TOOL CALL]" when it is None or ""; its tool_calls has one
\* entry of type "function" for each requested call, in order, with the
\* function name and the arguments string of the request unchanged.
C35_EchoContentNeverEmpty ==
    \A k \in EchoPositions :
        LET response == EchoedResponse(k)
            requested == response.tool_calls[1]
            echoed == messages[k].tool_calls[1]
        IN /\ messages[k].content # ""
           /\ messages[k].content =
                 (IF response.content \in {None, Some("")} THEN "[TOOL CALL]"
                  ELSE response.content[1])
           /\ Len(echoed) = Len(requested)
           /\ \A i \in 1..Len(echoed) :
                 /\ echoed[i].type = "function"
                 /\ echoed[i].function.name = requested[i].function.name
                 /\ echoed[i].function.arguments = requested[i].function.arguments

\* a run with two echo messages, the first for a response with no content and
\* an unparseable arguments string, the second with the content of the model
C35_Witness ==
    /\ Cardinality(EchoPositions) = 2
    /\ \E k \in EchoPositions : \E m \in EchoPositions :
          /\ k < m
          /\ EchoedResponse(k).content = None
          /\ messages[k].content = "[TOOL CALL]"
          /\ messages[k].tool_calls[1][1].function.arguments = ArgsBroken
          /\ messages[m].content = "Hi there"

----------------------------------------------------------------------------
(* Properties of the TUI app.                                                *)

\* the step is handle_input_submitted, and what it parsed
Submitted == app'.submissions = app.submissions + 1
ParsedNow == parse_input(app'.last.raw)

\* the workers that have not called the service yet
Scheduled(a) == {i \in 1..Len(a.workers) : a.workers[i].state = "scheduled"}

\* the arguments a worker was built with
RequestOf(worker) == [text |-> worker.text, mode |-> worker.mode, pair |-> worker.pair]

\* C36: a submission that parses to a supported pair and a text while no
\* reply is pending sets the pair of the app to that pair and starts one
\* worker, which sends one request to the service with the remaining text,
\* the mode of the app at the submission and the new pair; a submission that
\* parses to an error starts no worker, sends no request and leaves pair and
\* mode as they were. Every request the service receives is the one of a
\* scheduled worker, and there is one for each accepted submission.
C36_PairCommandSendsText ==
    [][ /\ Submitted =>
             /\ app'.last.raw = "/ruuk hello" =>
                   ParsedNow = ParsedInput(Some("hello"), Some(LanguagePair("ru", "uk")),
                                           None)
             /\ ParsedNow.error = None /\ ParsedNow.pair # None /\ ParsedNow.text # None
                   /\ ~app.pending =>
                   /\ app'.pair = ParsedNow.pair[1]
                   /\ app'.mode = app.mode
                   /\ app'.accepted = app.accepted + 1
                   /\ app'.calls = app.calls
                   /\ app'.workers =
                         <<[text |-> ParsedNow.text[1], mode |-> app.mode,
                            pair |-> ParsedNow.pair[1], state |-> "scheduled",
                            cancelled |-> FALSE]>>
             /\ ParsedNow.error # None =>
                   /\ app'.pair = app.pair
                   /\ app'.mode = app.mode
                   /\ app'.workers = app.workers
                   /\ app'.calls = app.calls
                   /\ app'.accepted = app.accepted
                   /\ app'.pending = app.pending
        /\ app'.calls # app.calls =>
              \E i \in Scheduled(app) :
                  app'.calls = Append(app.calls, RequestOf(app.workers[i]))
        /\ Len(app'.calls) + Cardinality(Scheduled(app')) = app'.accepted ]_vars

\* the mode was toggled, then "/ruuk hello" was submitted and its request sent
C36_Witness ==
    /\ app.last = [raw |-> "/ruuk hello", outcome |-> "sent"]
    /\ app.pair = LanguagePair("ru", "uk")
    /\ app.accepted = 1
    /\ app.pending
    /\ app.calls = <<[text |-> "hello", mode |-> "translation",
                      pair |-> LanguagePair("ru", "uk")]>>

\* the workers whose request the service has and has not answered
Outstanding(a) == {i \in 1..Len(a.workers) : a.workers[i].state = "awaiting"}

BusyMessage ==
    ChatMessage("assistant", "Oops... still processing the previous message.", "error",
                None)

\* C37: at most one request is outstanding at any time, under any
\* interleaving of submissions, mode toggles, pair swaps and worker steps; a
\* text submitted while a reply is pending starts no worker and is never
\* passed to the service, the transcript gets the "still processing" error;
\* a worker keeps the text, mode and pair it was built with until it ends,
\* whatever the mode and pair of the app become, and a translated reply is
\* labelled with the pair of its worker.
C37_OneRequestOutstanding ==
    /\ [](/\ Len(app.workers) <= 1
          /\ Cardinality(Outstanding(app)) <= 1
          /\ Len(app.calls) <= app.accepted)
    /\ [][ /\ Submitted /\ app.pending /\ ParsedNow.error = None
                 /\ ParsedNow.text # None =>
                 /\ app'.last.outcome = "busy"
                 /\ app'.workers = app.workers
                 /\ app'.calls = app.calls
                 /\ app'.accepted = app.accepted
                 /\ app'.pending
                 /\ app'.transcript = Append(app.transcript, BusyMessage)
           /\ Len(app'.workers) = Len(app.workers) =>
                 \A i \in 1..Len(app.workers) :
                     RequestOf(app'.workers[i]) = RequestOf(app.workers[i])
           /\ app'.calls # app.calls =>
                 /\ app.workers # << >>
                 /\ app'.calls = Append(app.calls, RequestOf(app.workers[1]))
           /\ Len(app'.workers) < Len(app.workers)
                 /\ Len(app'.transcript) > Len(app.transcript)
                 /\ app'.transcript[Len(app'.transcript)].kind = "translated" =>
                 app'.transcript[Len(app'.transcript)].pair_label =
                     Some(label(app.workers[1].pair)) ]_vars

\* a text was turned away while the request of an earlier one is outstanding,
\* and mode and pair of the app are no longer those of the request
C37_Witness ==
    /\ app.last.outcome = "busy"
    /\ app.pending
    /\ Len(app.calls) = 1
    /\ Cardinality(Outstanding(app)) = 1
    /\ app.workers[1].mode # app.mode
    /\ app.workers[1].pair # app.pair
    /\ app.transcript[Len(app.transcript)] = BusyMessage

----------------------------------------------------------------------------
(* Properties of the learning gaps under add_mistake and the memory tool.    *)

\* C39: after any interleaving of add_mistake calls and add, remove and clear
\* calls of the memory tool on the same memory, no entry occurs twice in
\* learning_gaps.
C39_GapsHaveNoDuplicates ==
    \A i \in 1..Len(learning_gaps) : \A j \in 1..Len(learning_gaps) :
        learning_gaps[i] = learning_gaps[j] => i = j

\* the tool added "tense" and was asked to add it again, after add_mistake
\* had reached the threshold for "tense" and for another type
C39_Witness ==
    /\ last_op.op = "add"
    /\ DictGet(last_op.arg[1], "learning_gap").s = "tense"
    /\ "tense" \in Elems(last_op.before[1])
    /\ Len(learning_gaps) = 3
    /\ CountOf(mistake_count, "tense") >= GapThreshold
    /\ Len(mistake_calls) >= 2

============================================================================
